---- MODULE Spec2Model ----
(***************************************************************************)
(* State-machine model of the ws-vless worker: the Mux.Cool session engine *)
(* (src/handlers/mux-session.ts) and the tunnel dispatcher                 *)
(* (src/handlers/connection.ts, tcp.ts, udp.ts).                           *)
(*                                                                         *)
(* JavaScript runs one callback at a time.  Every action below is one run  *)
(* of the event loop: a handler executed from its entry (or from the await *)
(* it was suspended at) up to its next await.  processData dispatches the  *)
(* frames of one chunk synchronously; the variable chunk holds the frames  *)
(* already dispatched by the processData call in progress, and no other    *)
(* callback runs while it is non-empty.                                    *)
(***************************************************************************)
EXTENDS Integers, Sequences, FiniteSets, TLC

VARIABLES
  subs,            \* every SubConnection record ever created, in creation order
  connections,     \* MuxSession.connections: sub-id -> index into subs
  endedSessions,   \* MuxSession.endedSessions, in insertion order (JS Set order)
  stats,           \* MuxSession.stats
  closed,          \* MuxSession.closed
  maxSubrequests,  \* MuxSession.maxSubrequests
  wq,              \* WriteQueue: queue (the entries from head on), head, processing, headerSent
  wsState,         \* webSocket.readyState
  dns,             \* DoH fetches in flight inside the Mux session: sequence of sub-ids
  chunk,           \* the running processData call: open, and the records it created
  nframes,         \* number of Mux frames dispatched so far
  ev,              \* the callback that ran last and the ws.send it issued
  strangerEnded,   \* ids whose stranger Keep was answered with End, no New since
  tx,              \* summary of the messages delivered to the client
  tunnel,          \* handleTunnelOverWS: mode and the state of the TCP or DNS relay
  wire,            \* the frames given to the write queue and the bytes delivered
  codec,           \* the last call of the Mux frame codec: its input and its result
  manager,         \* UUIDProviderManager with its cache store and the clock
  worker,          \* the last call of the Worker's fetch: env, request and response
  parser,          \* processData on bytes: the stream, the residue, the frames dispatched
  socket           \* writeToSocket on one sub-connection: the calls and the slices written

muxVars == <<subs, connections, endedSessions, stats, closed, maxSubrequests,
             wq, wsState, dns, chunk, nframes, ev, strangerEnded, tx, tunnel, wire>>

\* the variables of the codec, of the UUID manager and of the Worker's
\* fetch, which no handler of a tunnel touches
pureVars == <<codec, manager, worker, parser, socket>>

vars == <<muxVars, pureVars>>

----------------------------------------------------------------------------
(* Bounds *)

MaxId     == 1   \* sub-ids used by the client: 1..MaxId
MaxFrames == 3   \* Mux frames a client sends on one tunnel
MaxBudget == 2   \* options.maxSubrequests given to the session
MaxLiveFrames == 2 \* Mux frames a client sends on a tunnel whose sockets settle
MaxRemote == 2   \* chunks a remote delivers on one connection
MaxFresh  == 260 \* distinct fresh sub-ids the sequential client uses
MaxTunnelFrames == 2 \* Mux frames a client sends on a tunnel that starts with its greeting
MaxProbes == 3   \* frames the sequential client sends for the probed sub-id
MaxCloseFrames == 2 \* Mux frames a client sends on a tunnel that is torn down
MaxQueued == 4   \* frames the session gives to its write queue
MaxEnqueued == 70 \* enqueue calls of a long run of the write queue
MaxLen    == 2   \* bytes of one frame: 1..MaxLen
MaxCut    == 12  \* a frame is cut within its first MaxCut bytes, or before its last byte
MaxProviders == 2 \* providers registered with a manager whose fetches are followed
MaxCacheProviders == 1 \* providers registered with a manager whose cache is followed
MaxOps    == 2   \* calls of the cache store and of the manager on one cache
MaxTicks  == 1   \* times the clock is seen to advance between two calls

(* Program constants *)

MAX_SUBREQUESTS    == 48
MAX_WRITE_QUEUE    == 100
MAX_ENDED_SESSIONS == 256
QUEUE_COMPACT_HEAD == 64

DEFAULT_CACHE_TTL == 300
L2_WRITE_INTERVAL == 60000
RESPONSE_HEADER_LENGTH == 2

WS_OPEN   == 1
WS_CLOSED == 3

TCP == 1
UDP == 2

CMD_TCP == 1
CMD_UDP == 2
CMD_MUX == 3

MUX_COOL_ADDRESS == "v1.mux.cool"

SubIds == 1..MaxId

----------------------------------------------------------------------------
(* Sequence helpers *)

SeqRange(s) == {s[i] : i \in 1..Len(s)}

SeqWithout(s, x) == SelectSeq(s, LAMBDA y : y # x)

DropFirst(s, n) == SubSeq(s, n + 1, Len(s))

MapWithout(f, k) == [x \in DOMAIN f \ {k} |-> f[x]]

MapWith(f, k, v) == [x \in DOMAIN f \cup {k} |-> IF x = k THEN v ELSE f[x]]

NoSend == <<>>

EmptyMap == [x \in {} |-> 0]

----------------------------------------------------------------------------
(* Frames built by the server *)

buildMuxEndFrame(id) == [status |-> "End", id |-> id, data |-> FALSE]

buildMuxKeepFrame(id, hasData) == [status |-> "Keep", id |-> id, data |-> hasData]

----------------------------------------------------------------------------
(* WriteQueue *)

\* The slots of the backing array below head are never read again, so
\* wq.queue holds the entries from head on and the array length is
\* wq.head + Len(wq.queue).
queueLength(q) == q.head + Len(q.queue)

\* processQueue: the loop sends every entry from head on; a send that throws
\* consumes its entry and stops the loop.  throws says whether the first
\* send of this run throws.  Returns the new queue state and the sends made.
\* the try block of the loop: one webSocket.send, with the response header
\* in front of the data while headerSent is false
trySend_headerNotRecorded(q, data, throws) ==
  [q |-> q, msg |-> [frame |-> data, prefix |-> ~q.headerSent, ok |-> ~throws]]

trySend(q, data, throws) ==
  [q   |-> IF throws THEN q ELSE [q EXCEPT !.headerSent = TRUE],
   msg |-> [frame |-> data, prefix |-> ~q.headerSent, ok |-> ~throws]]

RECURSIVE processLoop(_, _, _)
processLoop(q, sent, throws) ==
  IF q.head >= queueLength(q) THEN [q |-> q, sent |-> sent]
  ELSE LET data == Head(q.queue)
           q1   == [q EXCEPT !.head = q.head + 1, !.queue = Tail(q.queue)]
           r    == trySend(q1, data, throws)
       IN IF throws
            THEN [q |-> r.q, sent |-> Append(sent, r.msg)]
            ELSE processLoop(r.q, Append(sent, r.msg), FALSE)

processQueue_keepsEntries(q, ws, throws) ==
  IF q.processing \/ q.head >= queueLength(q) THEN [q |-> q, sent |-> NoSend]
  ELSE IF ws # WS_OPEN THEN [q |-> [q EXCEPT !.queue = <<>>, !.head = 0], sent |-> NoSend]
  ELSE LET r == processLoop(q, NoSend, throws)
       IN [q |-> [q EXCEPT !.headerSent = r.q.headerSent], sent |-> r.sent]

processQueue(q, ws, throws) ==
  IF q.processing \/ q.head >= queueLength(q) THEN [q |-> q, sent |-> NoSend]
  ELSE IF ws # WS_OPEN THEN [q |-> [q EXCEPT !.queue = <<>>, !.head = 0], sent |-> NoSend]
  ELSE LET r  == processLoop(q, NoSend, throws)
           q1 == r.q
           q2 == IF q1.head > QUEUE_COMPACT_HEAD /\ q1.head >= queueLength(q1)
                   THEN [q1 EXCEPT !.queue = <<>>, !.head = 0]
                   ELSE q1
       IN [q |-> q2, sent |-> r.sent]

\* enqueue that leaves the sending to a later call
enqueue_pushOnly(q, ws, data, throws) ==
  IF queueLength(q) - q.head >= MAX_WRITE_QUEUE THEN [q |-> q, sent |-> NoSend]
  ELSE [q |-> [q EXCEPT !.queue = Append(q.queue, data)], sent |-> NoSend]

enqueue(q, ws, data, throws) ==
  IF queueLength(q) - q.head >= MAX_WRITE_QUEUE THEN [q |-> q, sent |-> NoSend]
  ELSE processQueue([q EXCEPT !.queue = Append(q.queue, data)], ws, throws)

sendEndFrame(q, ws, id, throws) ==
  IF ws # WS_OPEN THEN [q |-> q, sent |-> NoSend]
  ELSE enqueue(q, ws, buildMuxEndFrame(id), throws)

sendDataToWebSocket(q, ws, id, throws) ==
  IF ws # WS_OPEN THEN [q |-> q, sent |-> NoSend]
  ELSE enqueue(q, ws, buildMuxKeepFrame(id, TRUE), throws)

\* what the client has been delivered: number of messages, number of
\* messages that start with the response prefix, whether the first message
\* started with it, and whether a send threw before any message was
\* delivered (counters saturate at 2)
Min(a, b) == IF a < b THEN a ELSE b

RECURSIVE txAfter(_, _)
txAfter(t, sent) ==
  IF sent = <<>> THEN t
  ELSE LET m == Head(sent)
       IN IF ~m.ok
            THEN txAfter([t EXCEPT !.failed = @ \/ t.msgs = 0], Tail(sent))
            ELSE txAfter([msgs     |-> Min(t.msgs + 1, 2),
                          prefixed |-> Min(t.prefixed + (IF m.prefix THEN 1 ELSE 0), 2),
                          firstPrefixed |-> IF t.msgs = 0 THEN m.prefix ELSE t.firstPrefixed,
                          failed   |-> t.failed],
                         Tail(sent))

----------------------------------------------------------------------------
(* Session bookkeeping *)

\* markSessionEnded: when the set is full, the oldest half is dropped first
markSessionEnded_noEviction(es, id) ==
  IF id \in SeqRange(es) THEN es ELSE Append(es, id)

markSessionEnded(es, id) ==
  LET es1 == IF Len(es) >= MAX_ENDED_SESSIONS
               THEN DropFirst(es, Len(es) \div 2)
               ELSE es
  IN IF id \in SeqRange(es1) THEN es1 ELSE Append(es1, id)

InTable(id) == id \in DOMAIN connections

\* endedSessions.has(id)
isEnded_never(es, id) == FALSE

isEnded(es, id) == id \in SeqRange(es)

\* closeSubConnection applied to a record
closeRecord(r) ==
  [r EXCEPT !.closed = TRUE,
            !.writer = IF r.writer = "held" THEN "released" ELSE r.writer,
            !.socket = IF r.socket = "none" THEN "none" ELSE "closed"]

\* the session fields that removeConnection and closeSubConnection touch
Sess == [subs |-> subs, connections |-> connections,
         endedSessions |-> endedSessions, stats |-> stats]

removeConnection_recomputesLimit(S, id) ==
  LET conns == MapWithout(S.connections, id)
  IN [S EXCEPT !.connections = conns,
               !.stats.activeConnections = Cardinality(DOMAIN conns),
               !.stats.limitReached = FALSE,
               !.endedSessions = markSessionEnded(S.endedSessions, id)]

removeConnection(S, id) ==
  LET conns == MapWithout(S.connections, id)
  IN [S EXCEPT !.connections = conns,
               !.stats.activeConnections = Cardinality(DOMAIN conns),
               !.endedSessions = markSessionEnded(S.endedSessions, id)]

closeSubConnection(S, id) ==
  IF id \notin DOMAIN S.connections THEN S
  ELSE removeConnection([S EXCEPT !.subs[S.connections[id]] = closeRecord(@)], id)

Commit(S) ==
  /\ subs' = S.subs
  /\ connections' = S.connections
  /\ endedSessions' = S.endedSessions
  /\ stats' = S.stats

\* the effect of the ws.send calls of one callback
Sends(op, id, rec, res) ==
  /\ wq' = res.q
  /\ tx' = txAfter(tx, res.sent)
  /\ ev' = [op |-> op, id |-> id, rec |-> rec, sent |-> res.sent]
  /\ UNCHANGED <<wire, pureVars>>

Quiet(op, id, rec) ==
  /\ ev' = [op |-> op, id |-> id, rec |-> rec, sent |-> NoSend]
  /\ UNCHANGED <<wq, tx, wire, pureVars>>

\* processData hands one more frame of its chunk to handleFrame; more tells
\* whether the chunk holds further frames.  chunk.created are the records
\* created by the frames of the chunk so far.
NoChunk == [open |-> FALSE, created |-> {}]

Dispatched(more) ==
  /\ nframes' = nframes + 1
  /\ chunk' = IF more
                THEN [open |-> TRUE,
                      created |-> chunk.created \cup (Len(subs) + 1 .. Len(subs'))]
                ELSE NoChunk

\* processData drops the chunk when the session is closed
CanDispatch == ~closed

Idle == ~chunk.open

----------------------------------------------------------------------------
(* Initial state: new MuxSession(options) on an accepted WebSocket *)

NewWriteQueue == [queue |-> <<>>, head |-> 0, processing |-> FALSE, headerSent |-> FALSE]

NewStats == [totalTCPConnections |-> 0, totalUDPConnections |-> 0,
             activeConnections |-> 0, limitReached |-> FALSE]

NoEvent == [op |-> "init", id |-> 0, rec |-> 0, sent |-> NoSend]

NewTx == [msgs |-> 0, prefixed |-> 0, firstPrefixed |-> FALSE, failed |-> FALSE]

NewWire == [enq |-> 0, enqBytes |-> 0, sent |-> <<>>, bytes |-> 0]

\* no codec call yet
NoCodec == [op |-> "none"]

\* no sub-connection of its own
NoSocket == [op |-> "none"]

\* no bytes yet
NoStream == [op |-> "none"]

\* no request yet
NoRequest == [op |-> "none", requests |-> 0]

\* a cache tier without the entry, and an entry of it
Null == [present |-> FALSE]

MergedUUIDCache(uuidMap, expiresAt) ==
  [present |-> TRUE, uuidMap |-> uuidMap, expiresAt |-> expiresAt]

\* the manager and its cache store after construction.  hasL2: a KV or D1
\* binding is given, cacheTTL: options.cacheTTL.  now is Date.now(), which
\* stands at least one write interval after the epoch.
NewManager(hasL2, cacheTTL) ==
  [providers |-> <<>>, registered |-> 0, cacheTTL |-> cacheTTL, hasL2 |-> hasL2,
   phase |-> "idle", results |-> <<>>, order |-> <<>>,
   now |-> L2_WRITE_INTERVAL, l1 |-> Null, l2 |-> Null, l2LastWrite |-> 0,
   l2Writes |-> <<>>, ops |-> 0, ticks |-> 0,
   last |-> [op |-> "none"]]

MuxSessionInit(budget) ==
  /\ subs = <<>>
  /\ connections = EmptyMap
  /\ endedSessions = <<>>
  /\ stats = NewStats
  /\ closed = FALSE
  /\ maxSubrequests = (IF budget = 0 THEN MAX_SUBREQUESTS ELSE budget)
  /\ wq = NewWriteQueue
  /\ wsState = WS_OPEN
  /\ dns = <<>>
  /\ chunk = NoChunk
  /\ nframes = 0
  /\ ev = NoEvent
  /\ strangerEnded = {}
  /\ tx = NewTx
  /\ wire = NewWire

\* the tunnel state once createMuxSession has run
MuxTunnel == [mode |-> "mux", uuid |-> "valid", header |-> "ok", muxEnabled |-> TRUE,
              pc |-> "none", respHeader |-> FALSE, hasIncomingData |-> FALSE, recv |-> 0,
              connects |-> 0, isVlessHeaderSent |-> FALSE, queries |-> 0,
              errored |-> FALSE, doh |-> 0,
              MUX_ENABLED |-> "unset", proxyIP |-> "", targets |-> <<>>,
              firstEnd |-> "none", firstData |-> FALSE,
              tracker |-> FALSE, uplink |-> 0, downlink |-> 0, clientBytes |-> 0,
              sink |-> "open", reported |-> FALSE, reports |-> <<>>]

Init ==
  /\ MuxSessionInit(MaxBudget)
  /\ tunnel = MuxTunnel
  /\ codec = NoCodec
  /\ manager = NewManager(FALSE, DEFAULT_CACHE_TTL)
  /\ worker = NoRequest
  /\ parser = NoStream
  /\ socket = NoSocket

----------------------------------------------------------------------------
(* Frame dispatch: processData -> handleFrame *)

NewRecord(id, net, port, hasData) ==
  [id |-> id, network |-> net, port |-> port, closed |-> FALSE, ready |-> FALSE,
   writer |-> "none", socket |-> "none", pendingData |-> <<>>,
   init |-> IF hasData THEN 1 ELSE 0, rx |-> IF hasData THEN 1 ELSE 0,
   written |-> <<>>, pc |-> "new", keepWrites |-> 0, endWrites |-> 0, recv |-> 0,
   remote |-> "live"]

Rejects_offByOne(net) ==
  net = TCP /\ (stats.limitReached \/ stats.totalTCPConnections > maxSubrequests)

Rejects(net) ==
  net = TCP /\ (stats.limitReached \/ stats.totalTCPConnections >= maxSubrequests)

\* handleNewConnection, with the synchronous head of handleTCPSubConnection
\* or handleUDPSubConnection.  connectThrows: connect() throws at once.
RecvNew(id, net, port, hasData, more, throws, connectThrows) ==
  /\ CanDispatch
  /\ strangerEnded' = strangerEnded \ {id}
  /\ UNCHANGED <<closed, maxSubrequests, wsState, tunnel>>
  /\ LET es1 == SeqWithout(endedSessions, id)
     IN IF Rejects(net)
          THEN /\ Commit([Sess EXCEPT !.stats.limitReached = TRUE,
                                      !.endedSessions = markSessionEnded(es1, id)])
               /\ Sends("New", id, 0, sendEndFrame(wq, wsState, id, throws))
               /\ UNCHANGED dns
          ELSE LET idx == Len(subs) + 1
                   rec == NewRecord(id, net, port, hasData)
                   st1 == IF net = TCP
                            THEN [stats EXCEPT !.totalTCPConnections = @ + 1]
                            ELSE [stats EXCEPT !.totalUDPConnections = @ + 1]
                   cn1 == MapWith(connections, id, idx)
                   S1(r) == [subs |-> Append(subs, r), connections |-> cn1,
                             endedSessions |-> es1,
                             stats |-> [st1 EXCEPT !.activeConnections = Cardinality(DOMAIN cn1)]]
               IN IF net = TCP
                    THEN IF connectThrows
                           THEN /\ Commit(removeConnection(
                                       S1([rec EXCEPT !.closed = TRUE, !.pc = "done"]), id))
                                /\ Sends("New", id, idx, sendEndFrame(wq, wsState, id, throws))
                                /\ UNCHANGED dns
                           ELSE /\ Commit(S1([rec EXCEPT !.socket = "open", !.pc = "connecting"]))
                                /\ Quiet("New", id, idx)
                                /\ UNCHANGED dns
                    ELSE IF ~hasData
                           THEN /\ Commit(S1([rec EXCEPT !.pc = "done"]))
                                /\ Quiet("New", id, idx)
                                /\ UNCHANGED dns
                           ELSE IF port # 53
                             THEN /\ Commit(removeConnection(S1([rec EXCEPT !.pc = "done"]), id))
                                  /\ Sends("New", id, idx, sendEndFrame(wq, wsState, id, throws))
                                  /\ UNCHANGED dns
                             ELSE /\ Commit(S1([rec EXCEPT !.pc = "done"]))
                                  /\ Quiet("New", id, idx)
                                  /\ dns' = Append(dns, id)
  /\ Dispatched(more)

\* handleKeepConnection up to its first await
RecvKeep(id, hasData, more, throws) ==
  /\ CanDispatch
  /\ UNCHANGED <<closed, maxSubrequests, wsState, tunnel>>
  /\ IF ~InTable(id)
       THEN IF ~isEnded(endedSessions, id)
              THEN /\ Commit([Sess EXCEPT !.endedSessions = markSessionEnded(@, id)])
                   /\ Sends("Keep", id, 0, sendEndFrame(wq, wsState, id, throws))
                   /\ strangerEnded' = strangerEnded \cup {id}
                   /\ UNCHANGED dns
              ELSE /\ Quiet("Keep", id, 0)
                   /\ UNCHANGED <<subs, connections, endedSessions, stats, dns, strangerEnded>>
       ELSE LET idx == connections[id]
                r   == subs[idx]
            IN /\ Quiet("Keep", id, idx)
               /\ UNCHANGED <<connections, endedSessions, stats, strangerEnded>>
               /\ IF r.closed \/ ~hasData
                    THEN UNCHANGED <<subs, dns>>
                    ELSE IF r.network = TCP
                      THEN /\ UNCHANGED dns
                           /\ IF r.ready /\ r.writer # "none"
                                THEN subs' = [subs EXCEPT ![idx] =
                                       [r EXCEPT !.rx = @ + 1,
                                                 !.written = Append(@, r.rx + 1),
                                                 !.keepWrites = @ + 1]]
                                ELSE subs' = [subs EXCEPT ![idx] =
                                       [r EXCEPT !.rx = @ + 1,
                                                 !.pendingData = Append(@, r.rx + 1)]]
                      ELSE /\ dns' = Append(dns, id)
                           /\ subs' = [subs EXCEPT ![idx].rx = @ + 1]
  /\ Dispatched(more)

\* handleEndConnection up to its first await
RecvEnd(id, hasData, more) ==
  /\ CanDispatch
  /\ UNCHANGED <<closed, maxSubrequests, wsState, tunnel, dns, strangerEnded>>
  /\ IF ~InTable(id)
       THEN /\ Commit([Sess EXCEPT !.endedSessions = markSessionEnded(@, id)])
            /\ Quiet("End", id, 0)
       ELSE LET idx == connections[id]
                r   == subs[idx]
            IN /\ Quiet("End", id, idx)
               /\ IF hasData /\ r.writer # "none" /\ r.ready /\ ~r.closed
                    THEN /\ subs' = [subs EXCEPT ![idx] =
                                [r EXCEPT !.rx = @ + 1,
                                          !.written = Append(@, r.rx + 1),
                                          !.endWrites = @ + 1]]
                         /\ UNCHANGED <<connections, endedSessions, stats>>
                    ELSE Commit(closeSubConnection(
                           [Sess EXCEPT !.subs[idx].rx = IF hasData THEN @ + 1 ELSE @], id))
  /\ Dispatched(more)

\* a KeepAlive frame only refreshes lastActivityTime
RecvKeepAlive(more) ==
  /\ CanDispatch
  /\ Quiet("KeepAlive", 0, 0)
  /\ UNCHANGED <<subs, connections, endedSessions, stats, closed, maxSubrequests,
                 wsState, dns, strangerEnded, tunnel>>
  /\ Dispatched(more)

----------------------------------------------------------------------------
(* handleTCPSubConnection after its awaits *)

Tasks == {i \in 1..Len(subs) : subs[i].network = TCP}

\* the while loop over pendingData, up to the next awaited write; when the
\* loop ends pipeRemoteToWebSocket starts
drain(r) ==
  IF r.pendingData # <<>> /\ ~r.closed
    THEN [r EXCEPT !.pendingData = Tail(@),
                   !.written = Append(@, Head(r.pendingData)),
                   !.pc = "flushing"]
    ELSE [r EXCEPT !.pc = "piping"]

\* tcpSocket.opened won the race: acquire the writer, flush the initial data
afterOpened(r) ==
  LET r1 == [r EXCEPT !.writer = "held", !.ready = TRUE]
  IN IF r1.init # 0 /\ ~r1.closed
       THEN [r1 EXCEPT !.written = Append(@, r1.init), !.pc = "flushing"]
       ELSE drain(r1)

ConnectResolved(i) ==
  /\ Idle
  /\ i \in Tasks
  /\ subs[i].pc = "connecting"
  /\ subs' = [subs EXCEPT ![i] = afterOpened(@)]
  /\ Quiet("ConnectResolved", subs[i].id, i)
  /\ UNCHANGED <<connections, endedSessions, stats, closed, maxSubrequests, wsState,
                 dns, chunk, nframes, strangerEnded, tunnel>>

\* the catch of the connect race: connect error or timeout
connectFailed(S, i) ==
  removeConnection([S EXCEPT !.subs[i] = [@ EXCEPT !.closed = TRUE, !.socket = "closed",
                                                    !.pc = "done"]],
                   S.subs[i].id)

ConnectRejected(i, throws) ==
  /\ Idle
  /\ i \in Tasks
  /\ subs[i].pc = "connecting"
  /\ Sends("ConnectRejected", subs[i].id, i, sendEndFrame(wq, wsState, subs[i].id, throws))
  /\ Commit(connectFailed(Sess, i))
  /\ UNCHANGED <<closed, maxSubrequests, wsState, dns, chunk, nframes, strangerEnded, tunnel>>

FlushResolved(i) ==
  /\ Idle
  /\ i \in Tasks
  /\ subs[i].pc = "flushing"
  /\ subs' = [subs EXCEPT ![i] = drain(@)]
  /\ Quiet("FlushResolved", subs[i].id, i)
  /\ UNCHANGED <<connections, endedSessions, stats, closed, maxSubrequests, wsState,
                 dns, chunk, nframes, strangerEnded, tunnel>>

\* the outer catch of handleTCPSubConnection
taskFailed(S, i) ==
  removeConnection([S EXCEPT !.subs[i] = [@ EXCEPT !.closed = TRUE, !.pc = "done"]],
                   S.subs[i].id)

\* a write of the flush failed: writeToSocket rethrows unless the sub is closed
FlushRejected(i, throws) ==
  /\ Idle
  /\ i \in Tasks
  /\ subs[i].pc = "flushing"
  /\ UNCHANGED <<closed, maxSubrequests, wsState, dns, chunk, nframes, strangerEnded, tunnel>>
  /\ IF ~subs[i].closed
       THEN /\ Sends("FlushRejected", subs[i].id, i,
                     sendEndFrame(wq, wsState, subs[i].id, throws))
            /\ Commit(taskFailed(Sess, i))
       ELSE /\ Quiet("FlushRejected", subs[i].id, i)
            /\ subs' = [subs EXCEPT ![i] = drain(@)]
            /\ UNCHANGED <<connections, endedSessions, stats>>

----------------------------------------------------------------------------
(* handleKeepConnection and handleEndConnection after their awaited write *)

KeepWriteResolved(i) ==
  /\ Idle
  /\ i \in Tasks
  /\ subs[i].keepWrites > 0
  /\ subs' = [subs EXCEPT ![i].keepWrites = @ - 1]
  /\ Quiet("KeepWriteResolved", subs[i].id, i)
  /\ UNCHANGED <<connections, endedSessions, stats, closed, maxSubrequests, wsState,
                 dns, chunk, nframes, strangerEnded, tunnel>>

KeepWriteRejected(i) ==
  /\ Idle
  /\ i \in Tasks
  /\ subs[i].keepWrites > 0
  /\ Quiet("KeepWriteRejected", subs[i].id, i)
  /\ UNCHANGED <<closed, maxSubrequests, wsState, dns, chunk, nframes, strangerEnded, tunnel>>
  /\ LET S1 == [Sess EXCEPT !.subs[i].keepWrites = @ - 1]
     IN IF ~subs[i].closed
          THEN Commit(closeSubConnection(S1, subs[i].id))
          ELSE Commit(S1)

\* the trailing payload of an End frame was written or failed: either way
\* closeSubConnection(id) follows
EndWriteSettled(i) ==
  /\ Idle
  /\ i \in Tasks
  /\ subs[i].endWrites > 0
  /\ Quiet("EndWriteSettled", subs[i].id, i)
  /\ Commit(closeSubConnection([Sess EXCEPT !.subs[i].endWrites = @ - 1], subs[i].id))
  /\ UNCHANGED <<closed, maxSubrequests, wsState, dns, chunk, nframes, strangerEnded, tunnel>>

----------------------------------------------------------------------------
(* pipeRemoteToWebSocket *)

PipeData(i, throws) ==
  /\ Idle
  /\ i \in Tasks
  /\ subs[i].pc = "piping"
  /\ subs[i].socket = "open"
  /\ subs[i].recv < MaxRemote
  /\ subs' = [subs EXCEPT ![i].recv = @ + 1]
  /\ Sends("PipeData", subs[i].id, i, sendDataToWebSocket(wq, wsState, subs[i].id, throws))
  /\ UNCHANGED <<connections, endedSessions, stats, closed, maxSubrequests, wsState,
                 dns, chunk, nframes, strangerEnded, tunnel>>

\* the sink's close without its removeConnection
pipeEnded_keepsRecord(S, i) ==
  [S EXCEPT !.subs[i].pc = "done"]

pipeEnded(S, i) ==
  removeConnection([S EXCEPT !.subs[i].pc = "done"], S.subs[i].id)

PipeClose(i, throws) ==
  /\ Idle
  /\ i \in Tasks
  /\ subs[i].pc = "piping"
  /\ Sends("PipeClose", subs[i].id, i, sendEndFrame(wq, wsState, subs[i].id, throws))
  /\ Commit(pipeEnded(Sess, i))
  /\ UNCHANGED <<closed, maxSubrequests, wsState, dns, chunk, nframes, strangerEnded, tunnel>>

PipeAbort(i, throws) ==
  /\ Idle
  /\ i \in Tasks
  /\ subs[i].pc = "piping"
  /\ Sends("PipeAbort", subs[i].id, i, sendEndFrame(wq, wsState, subs[i].id, throws))
  /\ Commit(pipeEnded(Sess, i))
  /\ UNCHANGED <<closed, maxSubrequests, wsState, dns, chunk, nframes, strangerEnded, tunnel>>

----------------------------------------------------------------------------
(* handleDNSQuery after its fetch *)

RemoveAt(s, k) == SubSeq(s, 1, k - 1) \o SubSeq(s, k + 1, Len(s))

DnsResponse(k, throws) ==
  /\ Idle
  /\ k \in 1..Len(dns)
  /\ dns' = RemoveAt(dns, k)
  /\ Sends("DnsResponse", dns[k], 0, sendDataToWebSocket(wq, wsState, dns[k], throws))
  /\ UNCHANGED <<subs, connections, endedSessions, stats, closed, maxSubrequests, wsState,
                 chunk, nframes, strangerEnded, tunnel>>

DnsError(k) ==
  /\ Idle
  /\ k \in 1..Len(dns)
  /\ dns' = RemoveAt(dns, k)
  /\ Quiet("DnsError", dns[k], 0)
  /\ UNCHANGED <<subs, connections, endedSessions, stats, closed, maxSubrequests, wsState,
                 chunk, nframes, strangerEnded, tunnel>>

----------------------------------------------------------------------------
(* Tunnel teardown *)

RECURSIVE closeAll(_, _)
closeAll(S, ids) ==
  IF ids = {} THEN S
  ELSE LET id == CHOOSE x \in ids : TRUE
       IN closeAll(closeSubConnection(S, id), ids \ {id})

\* MuxSession.close() past its guard
sessionClose_keepsEnded(S) ==
  LET S1 == closeAll(S, DOMAIN S.connections)
  IN [S1 EXCEPT !.connections = EmptyMap,
                !.endedSessions = S.endedSessions,
                !.stats.activeConnections = 0]

sessionClose(S) ==
  LET S1 == closeAll(S, DOMAIN S.connections)
  IN [S1 EXCEPT !.connections = EmptyMap,
                !.endedSessions = <<>>,
                !.stats.activeConnections = 0]

\* MuxSession.close(): returns at once when the session is closed already
Close ==
  /\ Idle
  /\ Quiet("Close", 0, 0)
  /\ UNCHANGED <<maxSubrequests, dns, chunk, nframes, strangerEnded, tunnel>>
  /\ IF closed
       THEN UNCHANGED <<closed, subs, connections, endedSessions, stats, wsState>>
       ELSE /\ closed' = TRUE
            /\ Commit(sessionClose(Sess))
            /\ wsState' = WS_CLOSED

\* processData called on a closed session: it returns before it parses
ProcessDataClosed ==
  /\ Idle
  /\ closed
  /\ Quiet("processData", 0, 0)
  /\ UNCHANGED <<subs, connections, endedSessions, stats, closed, maxSubrequests, wsState,
                 dns, chunk, nframes, strangerEnded, tunnel>>

----------------------------------------------------------------------------
(* The Mux session driven by a client that opens TCP sub-connections on    *)
(* the sub-ids 1..MaxId, taking a new id only after the smaller ones.      *)

Max(S) == CHOOSE x \in S : \A y \in S : y <= x

UsedIds == {subs[i].id : i \in 1..Len(subs)} \cup SeqRange(endedSessions)

NextIds == 1..Min(MaxId, Max(UsedIds \cup {0}) + 1)

\* the last frame the client sends ends its chunk
More(cap) == IF nframes + 1 < cap THEN BOOLEAN ELSE {FALSE}

RecvFrames(cap) ==
  /\ nframes < cap
  /\ \E more \in More(cap), hasData \in BOOLEAN, id \in NextIds :
        \/ RecvNew(id, TCP, 443, hasData, more, FALSE, FALSE)
        \/ RecvKeep(id, hasData, more, FALSE)
        \/ RecvEnd(id, FALSE, more)

RecvFrame == RecvFrames(MaxFrames)

TaskStep ==
  \E i \in 1..Len(subs) :
     \/ ConnectResolved(i)
     \/ ConnectRejected(i, FALSE)
     \/ FlushResolved(i)
     \/ FlushRejected(i, FALSE)
     \/ KeepWriteResolved(i)
     \/ KeepWriteRejected(i)
     \/ PipeClose(i, FALSE)
     \/ PipeAbort(i, FALSE)

Next ==
  \/ RecvFrame
  \/ TaskStep

Spec == Init /\ [][Next]_vars

----------------------------------------------------------------------------
(* The same client with the settling of the upstream sockets made explicit: *)
(* the runtime first settles a promise (the connect race rejects on an      *)
(* error or on the 3 s timeout, the upstream socket closes), the callback   *)
(* of the session runs later.  remote is what the runtime has settled for a *)
(* record: "live", "failed" or "closed".  A callback whose promise has      *)
(* settled runs in the end; nothing obliges the remote or the client.  The  *)
(* client sends every frame in a chunk of its own, so that the callbacks    *)
(* may run between any two frames, every New and Keep frame carries data,   *)
(* and it has fewer sub-ids than frames, so that it takes an id again.  The *)
(* WebSocket stays open.                                                    *)

settledVars == <<connections, endedSessions, stats, closed, maxSubrequests, wq, wsState,
                 dns, chunk, nframes, ev, strangerEnded, tx, tunnel, wire, pureVars>>

\* the race of tcpSocket.opened against createTimeoutPromise rejects
ConnectFails(i) ==
  /\ i \in Tasks
  /\ subs[i].pc = "connecting"
  /\ subs[i].remote = "live"
  /\ subs' = [subs EXCEPT ![i].remote = "failed"]
  /\ UNCHANGED settledVars

\* the upstream socket of an opened connection closes or is reset
UpstreamCloses(i) ==
  /\ i \in Tasks
  /\ subs[i].pc \in {"flushing", "piping"}
  /\ subs[i].remote = "live"
  /\ subs' = [subs EXCEPT ![i].remote = "closed"]
  /\ UNCHANGED settledVars

\* the socket of the record is gone, by the remote or by the session
Gone(i) == subs[i].remote = "closed" \/ subs[i].socket = "closed"

\* the callbacks of record i whose promise the runtime has settled
SettledStep(i) ==
  /\ i \in Tasks
  /\ \/ subs[i].remote = "failed" /\ ConnectRejected(i, FALSE)
     \/ subs[i].remote = "closed" /\ (FlushResolved(i) \/ FlushRejected(i, FALSE))
     \/ subs[i].remote = "closed" /\ (PipeClose(i, FALSE) \/ PipeAbort(i, FALSE))

LiveStep(i) ==
  /\ i \in Tasks
  /\ \/ subs[i].remote = "live" /\ ConnectResolved(i)
     \/ subs[i].remote = "live" /\ subs[i].socket = "closed" /\ ConnectRejected(i, FALSE)
     \/ subs[i].remote # "closed" /\ FlushResolved(i)
     \/ subs[i].remote # "closed" /\ subs[i].socket = "closed" /\ FlushRejected(i, FALSE)
     \/ KeepWriteResolved(i)
     \/ Gone(i) /\ KeepWriteRejected(i)
     \/ subs[i].remote # "closed" /\ subs[i].socket = "closed" /\ PipeClose(i, FALSE)

LiveIds == 1..Min(MaxId, MaxLiveFrames - 1)

RecvLive ==
  /\ nframes < MaxLiveFrames
  /\ \E id \in NextIds \cap LiveIds :
        \/ RecvNew(id, TCP, 443, TRUE, FALSE, FALSE, FALSE)
        \/ RecvKeep(id, TRUE, FALSE, FALSE)
        \/ RecvEnd(id, FALSE, FALSE)

NextLive ==
  \/ RecvLive
  \/ \E i \in 1..Len(subs) : ConnectFails(i)
  \/ \E i \in 1..Len(subs) : UpstreamCloses(i)
  \/ \E i \in 1..Len(subs) : SettledStep(i)
  \/ \E i \in 1..Len(subs) : LiveStep(i)

SpecLive ==
  /\ Init
  /\ [][NextLive]_vars
  /\ \A i \in 1..MaxLiveFrames : WF_vars(SettledStep(i))

----------------------------------------------------------------------------
(* The same client on a tunnel that is torn down at some point: the sink's  *)
(* close or abort calls MuxSession.close(); tasks that were suspended at an *)
(* await go on afterwards, and chunks still in flight reach processData.    *)

RecvBeforeClose == RecvFrames(MaxCloseFrames)

NextClose ==
  \/ RecvBeforeClose
  \/ TaskStep
  \/ Close
  \/ ProcessDataClosed

SpecClose == Init /\ [][NextClose]_vars

----------------------------------------------------------------------------
(* The Mux session driven by a client that opens UDP sub-connections, to    *)
(* port 53 and to another port, with the first payload in the New frame or  *)
(* in a later Keep frame.                                                   *)

RecvUdpFrame ==
  /\ nframes < MaxFrames
  /\ \E more \in More(MaxFrames), hasData \in BOOLEAN, id \in NextIds :
        \/ \E port \in {53, 443} : RecvNew(id, UDP, port, hasData, more, FALSE, FALSE)
        \/ RecvKeep(id, hasData, more, FALSE)
        \/ RecvEnd(id, FALSE, more)

DnsTask ==
  \E k \in 1..Len(dns) :
     \/ DnsResponse(k, FALSE)
     \/ DnsError(k)

NextUdp ==
  \/ RecvUdpFrame
  \/ DnsTask

SpecUdp == Init /\ [][NextUdp]_vars

----------------------------------------------------------------------------
(* The write queue of a Mux session, frame by frame.  Every frame the       *)
(* session sends (sendDataToWebSocket, sendEndFrame, sendKeepAlive) goes    *)
(* through enqueue while the WebSocket is open.  The frames are numbered in *)
(* the order of the enqueue calls; wire.sent lists the numbers of the       *)
(* frames that webSocket.send delivered, wire.bytes sums their bytes.       *)

RECURSIVE wireAfter(_, _)
wireAfter(w, sent) ==
  IF sent = <<>> THEN w
  ELSE LET m == Head(sent)
       IN IF ~m.ok THEN wireAfter(w, Tail(sent))
          ELSE wireAfter([w EXCEPT !.sent = Append(@, m.frame.seq),
                                   !.bytes = @ + m.frame.len
                                             + (IF m.prefix THEN RESPONSE_HEADER_LENGTH ELSE 0)],
                         Tail(sent))

\* one frame of len bytes is built and enqueued; throws: webSocket.send throws
QueueSend(len, throws) ==
  /\ wire.enq < MaxQueued
  /\ wsState = WS_OPEN
  /\ LET frame == [seq |-> wire.enq + 1, len |-> len]
         res   == enqueue(wq, wsState, frame, throws)
     IN /\ wq' = res.q
        /\ tx' = txAfter(tx, res.sent)
        /\ ev' = [op |-> "enqueue", id |-> 0, rec |-> 0, sent |-> res.sent]
        /\ wire' = wireAfter([wire EXCEPT !.enq = @ + 1, !.enqBytes = @ + len], res.sent)
  /\ UNCHANGED <<subs, connections, endedSessions, stats, closed, maxSubrequests, wsState,
                 dns, chunk, nframes, strangerEnded, tunnel, pureVars>>

NextQueue == \E len \in 1..MaxLen, throws \in BOOLEAN : QueueSend(len, throws)

SpecQueue == Init /\ [][NextQueue]_vars

----------------------------------------------------------------------------
(* The write queue over a long run of enqueue calls, long enough for head   *)
(* to pass QUEUE_COMPACT_HEAD.  Only the number of calls is kept of the     *)
(* frames; every caller of enqueue has found the WebSocket open.            *)

EnqueueFrame(throws) ==
  /\ wire.enq < MaxEnqueued
  /\ wsState = WS_OPEN
  /\ LET res == enqueue(wq, wsState, [seq |-> 0, len |-> 1], throws)
     IN /\ wq' = res.q
        /\ tx' = txAfter(tx, res.sent)
        /\ ev' = [op |-> "enqueue", id |-> 0, rec |-> 0, sent |-> res.sent]
        /\ wire' = [wire EXCEPT !.enq = @ + 1]
  /\ UNCHANGED <<subs, connections, endedSessions, stats, closed, maxSubrequests, wsState,
                 dns, chunk, nframes, strangerEnded, tunnel, pureVars>>

NextBacklog == \E throws \in BOOLEAN : EnqueueFrame(throws)

SpecBacklog == Init /\ [][NextBacklog]_vars

----------------------------------------------------------------------------
(* The Mux session driven by a sequential client: one frame per chunk, no   *)
(* payload.  It sends Keep frames for sub-ids it never opened, each id once *)
(* (FreshId), and now and then a Keep, New or End frame for the sub-id       *)
(* ProbeId: before it has used any other id, or after it has used more than *)
(* MAX_ENDED_SESSIONS of them.                                              *)

ProbeId == 0   \* the sub-id the sequential client probes

FreshId == Max(UsedIds \cup {0}) + 1

RecvProbe ==
  /\ nframes - (FreshId - 1) < MaxProbes
  /\ FreshId = 1 \/ FreshId > MAX_ENDED_SESSIONS
  /\ \/ RecvKeep(ProbeId, FALSE, FALSE, FALSE)
     \/ RecvNew(ProbeId, UDP, 53, FALSE, FALSE, FALSE, FALSE)
     \/ RecvEnd(ProbeId, FALSE, FALSE)

RecvFresh ==
  /\ FreshId <= MaxFresh
  /\ RecvKeep(FreshId, FALSE, FALSE, FALSE)

NextEnded ==
  \/ RecvProbe
  \/ RecvFresh

SpecEnded == Init /\ [][NextEnded]_vars

----------------------------------------------------------------------------
(* handleTunnelOverWS: the sink of the WebSocket stream.  tunnel.mode is    *)
(* "greeting" until the first chunk has been handled; then it tells which   *)
(* of muxSession, isDns and remoteSocketWrapper.value is set, or "closed"   *)
(* when the sink has thrown.  tunnel.uuid is the validator's verdict on the *)
(* UUID of the greeting, tunnel.header the outcome of processHeader.        *)

\* the worker's fetch handler: muxEnabled = (env.MUX_ENABLED !== 'false')
muxEnabledFromEnv_alwaysOn(value) == TRUE

muxEnabledFromEnv(value) == value # "false"

\* the values of env.MUX_ENABLED and of the proxy host given to the tunnel
EnvValues == {"unset", "true", "false"}

ProxyIPs == {"", "proxy"}

\* tunnel.targets lists the outbound connects of the TCP relay, each with
\* the payload written to it; firstEnd and firstData tell how the pipe of the
\* first connection ended and whether it had delivered data; uplink and
\* downlink are the counters of the traffic tracker, clientBytes the payload
\* bytes the client has sent after its header.  sink is the state of the
\* WritableStream that the WebSocket is piped into: "open", "closed" or
\* "aborted" once close() or abort() has run, "errored" once write() has
\* thrown; reports lists the statistics handed to reportStats.
NewTunnel(value, proxyIP) ==
  [mode |-> "greeting", uuid |-> "none", header |-> "none",
   muxEnabled |-> muxEnabledFromEnv(value),
   pc |-> "none", respHeader |-> FALSE, hasIncomingData |-> FALSE, recv |-> 0,
   connects |-> 0, isVlessHeaderSent |-> FALSE, queries |-> 0,
   errored |-> FALSE, doh |-> 0,
   MUX_ENABLED |-> value, proxyIP |-> proxyIP, targets |-> <<>>,
   firstEnd |-> "none", firstData |-> FALSE,
   tracker |-> FALSE, uplink |-> 0, downlink |-> 0, clientBytes |-> 0,
   sink |-> "open", reported |-> FALSE, reports |-> <<>>]

\* the first chunk: shorter than a header or not, the validator's verdict on
\* its UUID, command byte, port, address, bytes after the header
Greetings ==
  [short : BOOLEAN, uuidOk : BOOLEAN, command : 0..3, port : {53, 443},
   address : {"host", MUX_COOL_ADDRESS, "mux.cool", "bad", ""}, hasData : BOOLEAN]

\* parseAddress of the greeting.  The address field of a greeting stands for
\* its address bytes: "bad" is an address type that is none of the three,
\* "" a Domain with length byte 0, the others a Domain of that name.  The
\* Domain branch returns its result itself, before the test for an empty
\* value that follows the switch.
parseAddress(address) ==
  IF address = "bad"
    THEN [hasError |-> TRUE, message |-> "address", addressValue |-> ""]
    ELSE [hasError |-> FALSE, message |-> "ok", addressValue |-> address]

isMuxConnection_anyMuxCool(address) == address \in {MUX_COOL_ADDRESS, "mux.cool"}

isMuxConnection(address) == address = MUX_COOL_ADDRESS

HeaderError(message) ==
  [hasError |-> TRUE, message |-> message, isUDP |-> FALSE, isMux |-> FALSE,
   addressRemote |-> "", portRemote |-> 443]

HeaderOk(isUDP, isMux, address, port) ==
  [hasError |-> FALSE, message |-> "ok", isUDP |-> isUDP, isMux |-> isMux,
   addressRemote |-> address, portRemote |-> port]

processHeader_commandFirst(g) ==
  IF g.short THEN HeaderError("short")
  ELSE IF g.command = CMD_MUX THEN HeaderOk(FALSE, TRUE, "mux.cool", 0)
  ELSE IF ~g.uuidOk THEN HeaderError("unauthorized")
  ELSE IF g.command \notin {CMD_TCP, CMD_UDP} THEN HeaderError("command")
  ELSE IF g.address = "bad" THEN HeaderError("address")
  ELSE HeaderOk(g.command = CMD_UDP, isMuxConnection(g.address), g.address, g.port)

processHeader(g) ==
  IF g.short THEN HeaderError("short")
  ELSE IF ~g.uuidOk THEN HeaderError("unauthorized")
  ELSE IF g.command \notin {CMD_TCP, CMD_UDP, CMD_MUX} THEN HeaderError("command")
  ELSE IF g.command = CMD_MUX THEN HeaderOk(FALSE, TRUE, "mux.cool", 0)
  ELSE LET addressResult == parseAddress(g.address)
       IN IF addressResult.hasError THEN HeaderError(addressResult.message)
          ELSE HeaderOk(g.command = CMD_UDP, isMuxConnection(addressResult.addressValue),
                        addressResult.addressValue, g.port)

\* one webSocket.send outside the Mux write queue
RawSend(op, prefix, throws) ==
  LET sent == <<[frame |-> "raw", prefix |-> prefix, ok |-> ~throws]>>
  IN /\ ev' = [op |-> op, id |-> 0, rec |-> 0, sent |-> sent]
     /\ tx' = txAfter(tx, sent)
     /\ UNCHANGED <<wq, wire, pureVars>>

sessionVars == <<subs, connections, endedSessions, stats, closed, maxSubrequests, dns,
                 nframes, strangerEnded>>

\* connectAndWrite up to its awaited write: connect(), then the initial data
\* is handed to the writer
connectAndWrite(t, address, port, data) ==
  [t EXCEPT !.connects = @ + 1,
            !.targets = Append(@, [address |-> address, port |-> port, data |-> data]),
            !.pc = IF t.connects = 0 THEN "writing1" ELSE "writing2"]

\* connect() of cloudflare:sockets may throw at once on an address it cannot
\* parse; the empty host name stands for these, and connect may return a
\* socket for it as well.  When it throws, handleTCPOutBound, which is not
\* awaited, rejects before remoteSocket.value is set, and write(chunk) returns
connectThrows(address) == address = ""

\* write(chunk) for a chunk that finds no Mux session, no DNS writer and no
\* remote socket: the first chunk of the tunnel.  tracked: statistics are
\* enabled and the header names a user, so that a traffic tracker is made;
\* the tracker is recorded for the TCP relay, whose counters are modelled.
Greeting(g, tracked) ==
  /\ tunnel.mode = "greeting"
  /\ wsState = WS_OPEN
  /\ ev' = [op |-> "Greeting", id |-> 0, rec |-> 0, sent |-> NoSend, greeting |-> g]
  /\ UNCHANGED <<wq, tx, wire, pureVars>>
  /\ UNCHANGED sessionVars
  /\ LET h  == processHeader(g)
         n  == IF g.hasData THEN 1 ELSE 0
         t1 == [tunnel EXCEPT !.header = h.message,
                              !.uuid = IF g.short THEN "none"
                                       ELSE IF g.uuidOk THEN "valid" ELSE "invalid"]
     IN IF h.hasError
          THEN /\ tunnel' = [t1 EXCEPT !.mode = "closed", !.sink = "errored"]
               /\ wsState' = WS_CLOSED
               /\ UNCHANGED chunk
          ELSE IF h.isMux /\ tunnel.muxEnabled
            THEN /\ tunnel' = [t1 EXCEPT !.mode = "mux"]
                 /\ chunk' = [open |-> g.hasData, created |-> {}]
                 /\ UNCHANGED wsState
          ELSE IF h.isUDP
            THEN IF h.portRemote = 53
                   THEN /\ tunnel' = [t1 EXCEPT !.mode = "dns",
                                                !.queries = IF g.hasData THEN 1 ELSE 0]
                        /\ UNCHANGED <<wsState, chunk>>
                   ELSE /\ tunnel' = [t1 EXCEPT !.mode = "closed", !.sink = "errored"]
                        /\ wsState' = WS_CLOSED
                        /\ UNCHANGED chunk
          ELSE /\ \/ tunnel' = connectAndWrite([t1 EXCEPT !.mode = "tcp",
                                                           !.tracker = @ \/ tracked,
                                                           !.clientBytes = n],
                                               h.addressRemote, h.portRemote, n)
                  \/ /\ connectThrows(h.addressRemote)
                     /\ tunnel' = [t1 EXCEPT !.tracker = @ \/ tracked]
               /\ UNCHANGED <<wsState, chunk>>

----------------------------------------------------------------------------
(* handleTCPOutBound and remoteSocketToWS *)

Attempt == IF tunnel.pc \in {"writing1", "piping1"} THEN 1 ELSE 2

\* trafficTracker?.addUplink(n)
addUplink(t, n) == IF t.tracker THEN [t EXCEPT !.uplink = @ + n] ELSE t

\* trafficTracker?.addDownlink(n)
addDownlink(t, n) == IF t.tracker THEN [t EXCEPT !.downlink = @ + n] ELSE t

\* connectAndWrite holds the writer of remoteSocket.value from getWriter()
\* until its awaited write has resolved; getWriter() on a locked stream throws
writerLocked(t) == t.pc \in {"writing1", "writing2"}

\* write(chunk) of the sink for a later chunk of a TCP tunnel, with its
\* awaited write to the remote socket; when getWriter() throws or that write
\* rejects, write(chunk) throws: the sink is in error, pipeTo cancels the WebSocket stream, whose
\* cancel() closes the WebSocket
TcpClientChunk(ok) ==
  /\ tunnel.mode = "tcp"
  /\ tunnel.sink = "open"
  /\ wsState = WS_OPEN
  /\ tunnel.clientBytes < MaxRemote
  /\ LET t1 == addUplink([tunnel EXCEPT !.clientBytes = @ + 1], 1)
     IN IF ok /\ ~writerLocked(tunnel)
          THEN /\ tunnel' = t1
               /\ UNCHANGED wsState
          ELSE /\ tunnel' = [t1 EXCEPT !.sink = "errored"]
               /\ wsState' = WS_CLOSED
  /\ Quiet("TcpClientChunk", 0, 0)
  /\ UNCHANGED <<sessionVars, chunk>>

\* connectAndWrite: the write of the initial data has settled; when it
\* resolved, the bytes are counted and remoteSocketToWS starts with a header
\* of its own
TcpWriteSettled(ok) ==
  /\ tunnel.pc \in {"writing1", "writing2"}
  /\ tunnel' = IF ok
                 THEN addUplink([tunnel EXCEPT !.pc = IF Attempt = 1 THEN "piping1" ELSE "piping2",
                                               !.respHeader = TRUE,
                                               !.hasIncomingData = FALSE],
                                tunnel.targets[Attempt].data)
                 ELSE [tunnel EXCEPT !.pc = "failed"]
  /\ Quiet("TcpWriteSettled", 0, 0)
  /\ UNCHANGED <<sessionVars, wsState, chunk>>

\* write(chunk) of the sink that remoteSocketToWS pipes the remote into
TcpRemoteData(throws) ==
  /\ tunnel.pc \in {"piping1", "piping2"}
  /\ tunnel.recv < MaxRemote
  /\ UNCHANGED <<sessionVars, chunk>>
  /\ LET t1 == addDownlink([tunnel EXCEPT !.hasIncomingData = TRUE, !.recv = @ + 1], 1)
     IN IF wsState # WS_OPEN
          THEN /\ tunnel' = [t1 EXCEPT !.pc = "done"]
               /\ Quiet("TcpRemoteData", 0, 0)
               /\ UNCHANGED wsState
          ELSE /\ RawSend("TcpRemoteData", tunnel.respHeader, throws)
               /\ IF throws
                    THEN /\ tunnel' = [t1 EXCEPT !.pc = "done"]
                         /\ wsState' = WS_CLOSED
                    ELSE /\ tunnel' = [t1 EXCEPT !.respHeader = FALSE]
                         /\ UNCHANGED wsState

\* the test that follows the pipe: !hasIncomingData && retry
shouldRetry_always(hasIncomingData, retry) == ~hasIncomingData

shouldRetry(hasIncomingData, retry) == ~hasIncomingData /\ retry

\* retry(): proxyIP || addressRemote
retryAddress(proxyIP, addressRemote) == IF proxyIP # "" THEN proxyIP ELSE addressRemote

\* the pipe from the remote ended: closed, or failed (then the WebSocket is
\* closed); without incoming data the first attempt is followed by retry().
\* The socket of the retry closes the WebSocket when it is closed.
TcpRemoteEnd(failed) ==
  /\ tunnel.pc \in {"piping1", "piping2"}
  /\ wsState' = IF failed \/ Attempt = 2 THEN WS_CLOSED ELSE wsState
  /\ LET t1 == IF Attempt = 1
                 THEN [tunnel EXCEPT !.firstEnd = IF failed THEN "error" ELSE "eof",
                                     !.firstData = tunnel.hasIncomingData]
                 ELSE tunnel
     IN tunnel' = IF shouldRetry(tunnel.hasIncomingData, Attempt = 1)
                    THEN connectAndWrite(t1, retryAddress(tunnel.proxyIP, tunnel.targets[1].address),
                                         tunnel.targets[1].port, tunnel.targets[1].data)
                    ELSE [t1 EXCEPT !.pc = "done"]
  /\ Quiet(IF failed THEN "TcpRemoteError" ELSE "TcpRemoteEof", 0, 0)
  /\ UNCHANGED <<sessionVars, chunk>>

----------------------------------------------------------------------------
(* handleUDPOutBound *)

\* write(chunk) in DNS mode: the chunk holds n length-prefixed queries
DnsChunk(n) ==
  /\ tunnel.mode = "dns"
  /\ wsState = WS_OPEN
  /\ tunnel.queries + tunnel.doh + n <= MaxRemote
  /\ tunnel' = [tunnel EXCEPT !.queries = @ + n]
  /\ Quiet("DnsChunk", 0, 0)
  /\ UNCHANGED <<sessionVars, wsState, chunk>>

\* the sink of the transform stream handles the next query: DoH fetch, then
\* the send of the response; a failed fetch or send puts the stream in error
DnsFetched(ok, throws) ==
  /\ tunnel.mode = "dns"
  /\ tunnel.queries > 0
  /\ ~tunnel.errored
  /\ UNCHANGED <<sessionVars, wsState, chunk>>
  /\ LET t1 == [tunnel EXCEPT !.queries = @ - 1, !.doh = @ + 1]
     IN IF ~ok
          THEN /\ tunnel' = [t1 EXCEPT !.errored = TRUE]
               /\ Quiet("DnsFetched", 0, 0)
          ELSE IF wsState # WS_OPEN
            THEN /\ tunnel' = t1
                 /\ Quiet("DnsFetched", 0, 0)
            ELSE /\ RawSend("DnsFetched", ~tunnel.isVlessHeaderSent, throws)
                 /\ tunnel' = IF throws THEN [t1 EXCEPT !.errored = TRUE]
                                        ELSE [t1 EXCEPT !.isVlessHeaderSent = TRUE]

----------------------------------------------------------------------------
(* The tunnel from the upgrade on: greeting, then the relay of its mode     *)

InitTunnel ==
  /\ MuxSessionInit(0)
  /\ \E value \in EnvValues, proxyIP \in ProxyIPs : tunnel = NewTunnel(value, proxyIP)
  /\ codec = NoCodec
  /\ manager = NewManager(FALSE, DEFAULT_CACHE_TTL)
  /\ worker = NoRequest
  /\ parser = NoStream
  /\ socket = NoSocket

Hello == \E g \in Greetings, tracked \in BOOLEAN : Greeting(g, tracked)

TcpStep ==
  \/ \E b \in BOOLEAN : TcpWriteSettled(b) \/ TcpRemoteData(b) \/ TcpRemoteEnd(b)
  \/ \E ok \in BOOLEAN : TcpClientChunk(ok)

DnsStep ==
  \/ \E n \in 1..MaxRemote : DnsChunk(n)
  \/ \E ok \in BOOLEAN, throws \in BOOLEAN : DnsFetched(ok, throws)

MuxFrame ==
  /\ tunnel.mode = "mux"
  /\ nframes < MaxTunnelFrames
  /\ \E more \in More(MaxTunnelFrames), throws \in BOOLEAN, id \in NextIds :
        \/ RecvNew(id, TCP, 443, FALSE, more, throws, FALSE)
        \/ RecvNew(id, UDP, 53, TRUE, more, throws, FALSE)
        \/ RecvKeep(id, FALSE, more, throws)

MuxTask ==
  \/ \E i \in 1..Len(subs), throws \in BOOLEAN :
        \/ ConnectResolved(i)
        \/ ConnectRejected(i, throws)
        \/ PipeData(i, throws)
  \/ \E k \in 1..Len(dns), throws \in BOOLEAN : DnsResponse(k, throws)

\* TrafficTracker.hasTraffic
hasTraffic(t) == t.uplink > 0 \/ t.downlink > 0

\* the end of close() and abort(): the statistics are reported once, when
\* there is a tracker with traffic
reportTraffic(t) ==
  IF t.tracker /\ ~t.reported /\ hasTraffic(t)
    THEN [t EXCEPT !.reported = TRUE,
                   !.reports = Append(@, [uuid |-> t.uuid, uplink |-> t.uplink,
                                          downlink |-> t.downlink])]
    ELSE t

\* the WebSocket stream closes (close event) or fails (error event) and the
\* sink's close() or abort() runs; outside Mux mode
SinkEnd(aborted) ==
  /\ tunnel.sink = "open"
  /\ wsState' = WS_CLOSED
  /\ tunnel' = reportTraffic([tunnel EXCEPT !.sink = IF aborted THEN "aborted" ELSE "closed"])
  /\ Quiet(IF aborted THEN "SinkAbort" ELSE "SinkClose", 0, 0)
  /\ UNCHANGED <<sessionVars, chunk>>

\* the client closes the WebSocket, or the WebSocket fails
WsClose ==
  IF tunnel.mode = "mux"
    THEN ~closed /\ Close
    ELSE \E aborted \in BOOLEAN : SinkEnd(aborted)

NextTunnel ==
  \/ Hello
  \/ TcpStep
  \/ DnsStep
  \/ MuxFrame
  \/ MuxTask
  \/ WsClose

SpecTunnel == InitTunnel /\ [][NextTunnel]_vars

----------------------------------------------------------------------------
(* The Mux frame codec on bytes: a byte array is a sequence of 0..255, the  *)
(* byte at offset i being element i + 1.                                    *)

MuxStatus == [New |-> 1, Keep |-> 2, End |-> 3, KeepAlive |-> 4]

MuxOption == [Data |-> 1]

AddressType == [IPv4 |-> 1, Domain |-> 2, IPv6 |-> 3]

\* the value of a read past the end of a Uint8Array
Undefined == 0 - 1

\* DataView.setUint16: the value modulo 2^16, big-endian
setUint16(value) == <<(value % (256 * 256)) \div 256, value % 256>>

\* DataView.getUint16 at an offset that lies within the view
getUint16(bytes, offset) == bytes[offset + 1] * 256 + bytes[offset + 2]

\* bytes[i]
byteAt(bytes, i) == IF i < Len(bytes) THEN bytes[i + 1] ELSE Undefined

\* Uint8Array.slice(from, to), which stops at the end of the array
slice(bytes, from, to) == SubSeq(bytes, from + 1, Min(to, Len(bytes)))

buildMuxFrame(id, status, option, metadata, data) ==
  LET metadataLength == 4 + Len(metadata)
  IN setUint16(metadataLength) \o setUint16(id) \o <<status % 256, option % 256>>
       \o metadata
       \o (IF Len(data) > 0 THEN setUint16(Len(data)) \o data ELSE <<>>)

buildMuxKeepFrameBytes(id, data) ==
  buildMuxFrame(id, MuxStatus.Keep, IF Len(data) > 0 THEN MuxOption.Data ELSE 0, <<>>, data)

buildMuxEndFrameBytes(id) == buildMuxFrame(id, MuxStatus.End, 0, <<>>, <<>>)

\* the results of parseMuxFrame.  read: the end of the bytes of the buffer
\* that the parser has read when it returns or throws
MuxParseError(message, read) ==
  [hasError |-> TRUE, threw |-> FALSE, message |-> message, read |-> read]

MuxParseThrows(read) ==
  [hasError |-> TRUE, threw |-> TRUE, message |-> "RangeError", read |-> read]

\* parseAddress(bytes, offset, addressType): the length it returns (Undefined
\* for NaN) and the end of the bytes it read
parseMuxAddress(bytes, offset, addressType) ==
  IF addressType = AddressType.IPv4
    THEN [threw |-> FALSE, length |-> 4, read |-> Min(offset + 4, Len(bytes))]
  ELSE IF addressType = AddressType.Domain
    THEN LET domainLength == byteAt(bytes, offset)
         IN IF domainLength = Undefined
              THEN [threw |-> FALSE, length |-> Undefined, read |-> Len(bytes)]
              ELSE [threw |-> FALSE, length |-> 1 + domainLength,
                    read |-> Min(offset + 1 + domainLength, Len(bytes))]
  ELSE IF addressType = AddressType.IPv6
    THEN IF Len(bytes) < offset + 16
           THEN [threw |-> TRUE, length |-> 0, read |-> Len(bytes)]
           ELSE [threw |-> FALSE, length |-> 16, read |-> offset + 16]
  ELSE [threw |-> FALSE, length |-> 0, read |-> 0]

Largest(a, b) == IF a < b THEN b ELSE a

\* the switch on the status: what it reads of the buffer after the option
\* byte.  ok: the status is known; threw: a DataView access out of range
parseMuxExtra(bytes, metadataLength, status) ==
  LET target(isNew) ==
        IF Len(bytes) < 9 THEN [ok |-> TRUE, threw |-> TRUE, read |-> Len(bytes)]
        ELSE LET a == parseMuxAddress(bytes, 10, byteAt(bytes, 9))
                 globalId == /\ isNew
                             /\ a.length # Undefined
                             /\ metadataLength >= 12 + a.length
                 end == IF globalId THEN Min(18 + a.length, Len(bytes)) ELSE 0
             IN [ok |-> TRUE, threw |-> a.threw,
                 read |-> Largest(Min(10, Len(bytes)), Largest(a.read, end))]
      none == [ok |-> TRUE, threw |-> FALSE, read |-> 6]
  IN IF status = MuxStatus.New THEN target(TRUE)
     ELSE IF status = MuxStatus.Keep
       THEN IF metadataLength > 4
              THEN IF byteAt(bytes, 6) = UDP THEN target(FALSE)
                   ELSE [none EXCEPT !.read = 7]
              ELSE none
     ELSE IF status \in {MuxStatus.End, MuxStatus.KeepAlive} THEN none
     ELSE [ok |-> FALSE, threw |-> FALSE, read |-> 6]

parseMuxFrame(bytes) ==
  IF Len(bytes) < 2 THEN MuxParseError("Buffer too short for Mux frame", 0)
  ELSE LET metadataLength == getUint16(bytes, 0)
       IN IF Len(bytes) < 2 + metadataLength THEN MuxParseError("Incomplete Mux metadata", 2)
          ELSE IF metadataLength < 4 THEN MuxParseError("Mux metadata too short", 2)
          ELSE
            LET id      == getUint16(bytes, 2)
                status  == bytes[5]
                option  == bytes[6]
                hasData == option % 2 = 1
                extra   == parseMuxExtra(bytes, metadataLength, status)
                frameLength == 2 + metadataLength
                frame(data, length) ==
                  [hasError |-> FALSE, threw |-> FALSE, message |-> "", read |-> extra.read,
                   id |-> id, status |-> status, option |-> option, hasData |-> hasData,
                   data |-> data, frameLength |-> length, metadataLength |-> metadataLength]
            IN IF extra.threw THEN MuxParseThrows(extra.read)
               ELSE IF ~extra.ok THEN MuxParseError("Unknown Mux status", extra.read)
               ELSE IF ~hasData THEN frame(<<>>, frameLength)
               ELSE IF Len(bytes) < frameLength + 2
                 THEN MuxParseError("Incomplete Mux data length", extra.read)
               ELSE LET dataLength == getUint16(bytes, frameLength)
                    IN IF Len(bytes) < frameLength + 2 + dataLength
                         THEN MuxParseError("Incomplete Mux data", extra.read)
                         ELSE frame(slice(bytes, frameLength + 2, frameLength + 2 + dataLength),
                                    frameLength + 2 + dataLength)

\* the messages that processData takes for a frame that has not arrived whole
Incomplete == {"Buffer too short for Mux frame", "Incomplete Mux metadata",
               "Incomplete Mux data length", "Incomplete Mux data"}

(* The inputs of the codec.  Sub-ids cover both bytes of the field; payloads *)
(* are the byte strings of up to MaxLen bytes over three byte values, and   *)
(* the two strings of zero bytes around the largest length 16 bits hold.    *)

Ids == {0, 1, 258, 256 * 256 - 1}

RECURSIVE Strings(_, _)
Strings(S, n) ==
  IF n = 0 THEN {<<>>}
  ELSE LET shorter == Strings(S, n - 1)
       IN shorter \cup {Append(s, b) : s \in {t \in shorter : Len(t) = n - 1}, b \in S}

Zeros(n) == [i \in 1..n |-> 0]

Payloads == Strings({0, 1, 255}, MaxLen)

\* a payload of the largest length that 16 bits hold, and of one byte more,
\* is given by its number of bytes, all of them zero
Large == {256 * 256 - 1, 256 * 256}

\* the extra metadata of a New frame: network, port, address type, address
Targets == {<<TCP, 0, 80, AddressType.IPv4, 10, 0, 0, 1>>,
            <<UDP, 0, 53, AddressType.Domain, 1, 97>>,
            <<TCP, 1, 187, AddressType.Domain, 0>>}

\* metadata that ends before the target does
Truncated == {<<>>, <<TCP>>, <<TCP, 0, 80>>, <<TCP, 0, 80, AddressType.IPv6, 0>>,
              <<UDP, 0, 53, AddressType.Domain, 3, 97>>}

\* the buffer lengths at which a frame of n bytes is cut
Cuts(n) == {k \in 0..(n - 1) : k <= MaxCut \/ k = n - 1}

\* the arguments of one call of a frame builder; the payload is data
\* followed by pad zero bytes
CodecInput(op, id, status, metadata, data, pad, wellFormed) ==
  [op |-> "input", call |-> op, id |-> id, status |-> status, metadata |-> metadata,
   data |-> data, pad |-> pad, wellFormed |-> wellFormed, cut |-> 0, size |-> 0,
   res |-> MuxParseError("", 0)]

\* buildMuxKeepFrame(id, data), buildMuxEndFrame(id), and the New and UDP
\* Keep frames of a client: those that carry their target and those whose
\* metadata is truncated
CodecInputs ==
  {CodecInput("Keep", id, MuxStatus.Keep, <<>>, data, 0, TRUE) : id \in Ids, data \in Payloads}
  \cup {CodecInput("Keep", 1, MuxStatus.Keep, <<>>, <<>>, pad, TRUE) : pad \in Large}
  \cup {CodecInput("End", id, MuxStatus.End, <<>>, <<>>, 0, TRUE) : id \in Ids}
  \cup {CodecInput("Client", id, status, metadata, data, 0, TRUE) :
           id \in Ids, status \in {MuxStatus.New, MuxStatus.Keep}, metadata \in Targets,
           data \in Payloads}
  \cup {CodecInput("Client", id, status, metadata, data, 0, FALSE) :
           id \in Ids, status \in {MuxStatus.New, MuxStatus.Keep}, metadata \in Truncated,
           data \in Payloads}

InitCodec ==
  /\ MuxSessionInit(MaxBudget)
  /\ tunnel = MuxTunnel
  /\ codec \in CodecInputs
  /\ manager = NewManager(FALSE, DEFAULT_CACHE_TTL)
  /\ worker = NoRequest
  /\ parser = NoStream
  /\ socket = NoSocket

\* the payload and the frame of a call
payloadOf(c) == c.data \o Zeros(c.pad)

frameOf(c) ==
  IF c.call = "Keep" THEN buildMuxKeepFrameBytes(c.id, payloadOf(c))
  ELSE IF c.call = "End" THEN buildMuxEndFrameBytes(c.id)
  ELSE buildMuxFrame(c.id, c.status, IF Len(payloadOf(c)) > 0 THEN MuxOption.Data ELSE 0,
                     c.metadata, payloadOf(c))

\* the frame is built and its bytes are parsed
BuildAndParse ==
  /\ codec.op = "input"
  /\ LET bytes == frameOf(codec)
     IN codec' = [codec EXCEPT !.op = "parsed", !.cut = Len(bytes), !.size = Len(bytes),
                               !.res = parseMuxFrame(bytes)]
  /\ UNCHANGED <<muxVars, manager, worker, parser, socket>>

\* the first k bytes of the frame are parsed, k less than its length
ParsePrefix ==
  /\ codec.op = "parsed"
  /\ \E k \in Cuts(codec.size) :
        codec' = [codec EXCEPT !.cut = k, !.res = parseMuxFrame(SubSeq(frameOf(codec), 1, k))]
  /\ UNCHANGED <<muxVars, manager, worker, parser, socket>>

NextCodec == BuildAndParse \/ ParsePrefix

SpecCodec == InitCodec /\ [][NextCodec]_vars

----------------------------------------------------------------------------
(* processData on bytes: the chunks of a client's byte stream are parsed    *)
(* into frames, the unparsed rest is kept in this.buffer.  The session is   *)
(* open; what handleFrame does with a frame is the subject of the actions   *)
(* of the session above, here the frames handed to it are recorded.         *)

\* let maxIterations = 1000
MAX_ITERATIONS == 1000

\* one pass through the body of the loop of processData.  done: the loop has
\* ended, error: the message of the result that ended it, threw:
\* parseMuxFrame threw
parseNext(bytes, loop) ==
  IF ~(loop.offset < Len(bytes) /\ loop.maxIterations > 0) \/ Len(bytes) - loop.offset < 2
    THEN [loop EXCEPT !.done = TRUE]
  ELSE CHOOSE next \in
         {IF result.threw
            THEN [loop EXCEPT !.done = TRUE, !.frames = <<>>, !.error = result.message,
                              !.threw = TRUE]
          ELSE IF result.hasError THEN [loop EXCEPT !.done = TRUE, !.error = result.message]
          ELSE IF result.frameLength <= 0
            THEN [loop EXCEPT !.done = TRUE, !.error = "invalid frameLength"]
          ELSE [loop EXCEPT !.offset = @ + result.frameLength,
                            !.maxIterations = @ - 1,
                            !.frames = Append(@, [id |-> result.id, status |-> result.status,
                                                  data |-> result.data])] :
            result \in {parseMuxFrame(rest) :
                          rest \in {SubSeq(bytes, loop.offset + 1, Len(bytes))}}} : TRUE

\* n passes through the loop, or fewer when it ends before
RECURSIVE parseTimes(_, _, _)
parseTimes(bytes, loop, n) ==
  IF loop.done \/ n = 0 THEN loop
  ELSE IF n = 1 THEN parseNext(bytes, loop)
  ELSE CHOOSE rest \in {parseTimes(bytes, half, n - n \div 2) :
                          half \in {parseTimes(bytes, loop, n \div 2)}} : TRUE

\* the while loop of processData: at most MAX_ITERATIONS frames are parsed,
\* the test that follows the last of them ends the loop
parseFrames(bytes) ==
  parseTimes(bytes, [offset |-> 0, maxIterations |-> MAX_ITERATIONS, frames |-> <<>>,
                     error |-> "", threw |-> FALSE, done |-> FALSE],
             MAX_ITERATIONS + 1)

\* processData(data) with this.buffer = buffer: the buffer it leaves and the
\* frames it hands to handleFrame, in their order.  When parseMuxFrame throws
\* the buffer has been emptied and no frame is handed over.
processData(buffer, data) ==
  CHOOSE out \in
    {CHOOSE out \in
       {[buffer |-> IF parsed.threw THEN <<>>
                    ELSE IF parsed.offset < Len(bytes)
                      THEN slice(bytes, parsed.offset, Len(bytes))
                    ELSE <<>>,
         frames |-> parsed.frames, error |-> parsed.error, threw |-> parsed.threw] :
          parsed \in {parseFrames(bytes)}} : TRUE :
       bytes \in {IF Len(buffer) = 0 THEN data ELSE buffer \o data}} : TRUE

\* a frame as a client writes it, and bytes that are no frame
WireFrame(id, status, metadata, data) ==
  [bytes |-> buildMuxFrame(id, status, IF Len(data) > 0 THEN MuxOption.Data ELSE 0,
                           metadata, data),
   malformed |-> FALSE, id |-> id, status |-> status, data |-> data]

BadFrame(bytes) == [bytes |-> bytes, malformed |-> TRUE, id |-> 0, status |-> 0, data |-> <<>>]

WireFrames ==
  {WireFrame(1, MuxStatus.End, <<>>, <<>>),
   WireFrame(1, MuxStatus.Keep, <<>>, <<7>>),
   WireFrame(258, MuxStatus.Keep, <<>>, <<7, 8>>),
   WireFrame(2, MuxStatus.New, <<TCP, 0, 80, AddressType.IPv4, 10, 0, 0, 1>>, <<9>>),
   WireFrame(0, MuxStatus.KeepAlive, <<>>, <<>>)}

\* a frame of status 9, and a frame whose metadata length is 3
BadFrames == {BadFrame(<<0, 4, 0, 1, 9, 0>>), BadFrame(<<0, 3, 0, 1, 3>>)}

MaxStream == 2

MaxChunk == 4

MaxChunks == 3

RECURSIVE SeqsUpTo(_, _)
SeqsUpTo(S, n) ==
  IF n = 0 THEN {<<>>}
  ELSE LET shorter == SeqsUpTo(S, n - 1)
       IN shorter \cup {Append(q, x) : q \in {t \in shorter : Len(t) = n - 1}, x \in S}

\* a stream: its first frames, followed by tail End frames of sub-id 0
Stream(frames, tail) == [frames |-> frames, tail |-> tail]

\* the streams of well-formed frames, among them those of as many frames as
\* the loop has iterations and of one frame more; and the streams with a
\* malformed frame, after at most one frame and before one frame
Streams ==
  {Stream(frames, 0) : frames \in SeqsUpTo(WireFrames, MaxStream) \ {<<>>}}
  \cup {Stream(<<>>, MAX_ITERATIONS), Stream(<<>>, MAX_ITERATIONS + 1)}
  \cup {Stream(before \o <<bad, after>>, 0) :
          before \in SeqsUpTo(WireFrames, 1), bad \in BadFrames, after \in WireFrames}

RECURSIVE Flatten(_)
Flatten(frames) == IF frames = <<>> THEN <<>> ELSE Head(frames).bytes \o Flatten(Tail(frames))

StreamBytes(stream) ==
  LET end == buildMuxEndFrameBytes(0)
  IN Flatten(stream.frames)
       \o [i \in 1..(stream.tail * Len(end)) |-> end[((i - 1) % Len(end)) + 1]]

\* the sizes of the next chunk when r bytes of the stream are left
ChunkSizes(r) == {n \in 1..r : n <= MaxChunk \/ n = r}

InitParser ==
  /\ MuxSessionInit(MaxBudget)
  /\ tunnel = MuxTunnel
  /\ codec = NoCodec
  /\ manager = NewManager(FALSE, DEFAULT_CACHE_TTL)
  /\ worker = NoRequest
  /\ socket = NoSocket
  /\ \E stream \in Streams :
        parser = [op |-> "stream", stream |-> stream, sent |-> 0, chunks |-> 0,
                  buffer |-> <<>>, frames |-> <<>>, error |-> "", threw |-> FALSE]

\* the next chunk of the stream arrives: processData(chunk)
ProcessBytes ==
  /\ parser.op # "none"
  /\ parser.chunks < MaxChunks
  /\ \E all \in {StreamBytes(parser.stream)} :
       \E n \in ChunkSizes(Len(all) - parser.sent) :
         \E data \in {SubSeq(all, parser.sent + 1, parser.sent + n)} :
           \E out \in {processData(parser.buffer, data)} :
             parser' = [parser EXCEPT !.op = "processData", !.sent = @ + n,
                                      !.chunks = @ + 1, !.buffer = out.buffer,
                                      !.frames = @ \o out.frames, !.error = out.error,
                                      !.threw = out.threw]
  /\ UNCHANGED <<muxVars, codec, manager, worker, socket>>

NextParser == ProcessBytes

SpecParser == InitParser /\ [][NextParser]_vars

----------------------------------------------------------------------------
(* writeToSocket on one TCP sub-connection that is ready: the Keep frames   *)
(* of one chunk carry payloads for it, handleFrame is called for each of    *)
(* them without await, and the writes of the writer settle in the order in  *)
(* which they were made.  A payload is given by its length, a slice by the  *)
(* frame it is of and its two offsets in the payload.                       *)

MAX_CHUNK_SIZE == 8192

MaxKeeps == 2

\* the lengths of the payloads: one slice, or two, or three
Lengths == {1, MAX_CHUNK_SIZE, MAX_CHUNK_SIZE + 1, 2 * MAX_CHUNK_SIZE + 1}

\* splitIntoChunks(data, chunkSize): the slice that the generator yields
\* next when it stands at offset
splitIntoChunks(frame, length, offset, chunkSize) ==
  [frame |-> frame, from |-> offset, to |-> Min(offset + chunkSize, length)]

\* writer.write(part) is called and awaited by call c
writeAwaited(sk, c, part) ==
  [sk EXCEPT !.written = Append(@, part),
             !.awaited = Append(@, c),
             !.calls[c].offset = part.to]

\* writeToSocket(subConn, data) up to its first await
writeToSocket(sk, frame, length) ==
  LET c  == Len(sk.calls) + 1
      s1 == [sk EXCEPT !.calls = Append(@, [frame |-> frame, length |-> length, offset |-> 0,
                                            returned |-> FALSE])]
  IN IF sk.closed THEN [s1 EXCEPT !.calls[c].returned = TRUE]
     ELSE IF length > MAX_CHUNK_SIZE
       THEN writeAwaited(s1, c, splitIntoChunks(frame, length, 0, MAX_CHUNK_SIZE))
     ELSE writeAwaited(s1, c, [frame |-> frame, from |-> 0, to |-> length])

\* writeToSocket after the write it awaited has resolved
writeToSocketResumed(sk, c) ==
  LET call == sk.calls[c]
  IN IF call.length > MAX_CHUNK_SIZE /\ call.offset < call.length /\ ~sk.closed
       THEN writeAwaited(sk, c, splitIntoChunks(call.frame, call.length, call.offset,
                                                MAX_CHUNK_SIZE))
       ELSE [sk EXCEPT !.calls[c].returned = TRUE]

\* the loop of processData over the frames of the chunk: handleFrame ->
\* handleKeepConnection -> writeToSocket, each up to its first await
RECURSIVE handleFrames(_, _, _)
handleFrames(sk, frames, k) ==
  IF k > Len(frames) THEN sk
  ELSE handleFrames(writeToSocket(sk, k, frames[k]), frames, k + 1)

InitSocket ==
  /\ MuxSessionInit(MaxBudget)
  /\ tunnel = MuxTunnel
  /\ codec = NoCodec
  /\ manager = NewManager(FALSE, DEFAULT_CACHE_TTL)
  /\ worker = NoRequest
  /\ parser = NoStream
  /\ \E frames \in SeqsUpTo(Lengths, MaxKeeps) \ {<<>>} :
        socket = [op |-> "chunk", frames |-> frames, calls |-> <<>>, written |-> <<>>,
                  awaited |-> <<>>, closed |-> FALSE]

SocketStep(next) ==
  /\ socket' = next
  /\ UNCHANGED <<muxVars, codec, manager, worker, parser>>

\* processData hands the frames of the chunk to handleFrame
KeepFrames ==
  /\ socket.op = "chunk"
  /\ SocketStep([handleFrames(socket, socket.frames, 1) EXCEPT !.op = "KeepFrames"])

\* the oldest write of the writer resolves
WriteResolved ==
  /\ socket.op # "none"
  /\ socket.awaited # <<>>
  /\ SocketStep([writeToSocketResumed([socket EXCEPT !.awaited = Tail(@)],
                                      Head(socket.awaited))
                   EXCEPT !.op = "WriteResolved"])

\* the oldest write rejects: writeToSocket rethrows while the sub-connection
\* is open, and handleKeepConnection closes it
WriteRejected ==
  /\ socket.op # "none"
  /\ socket.awaited # <<>>
  /\ SocketStep([socket EXCEPT !.op = "WriteRejected", !.awaited = Tail(@),
                               !.calls[Head(socket.awaited)].returned = TRUE,
                               !.closed = TRUE])

\* an End frame of a later chunk: closeSubConnection
SubClosed ==
  /\ socket.op \notin {"none", "chunk"}
  /\ ~socket.closed
  /\ SocketStep([socket EXCEPT !.op = "SubClosed", !.closed = TRUE])

NextSocket == KeepFrames \/ WriteResolved \/ WriteRejected \/ SubClosed

SpecSocket == InitSocket /\ [][NextSocket]_vars

----------------------------------------------------------------------------
(* UUIDProviderManager: registration and the fetch from the providers *)

\* the names of the providers, by their number of registration
ProviderNames == <<"p1", "p2", "p3", "p4">>

Priorities == {0, 1}

\* the arrays a provider's fetchUUIDs resolves to
Fetched == {<<>>, <<"a">>, <<"A", "b">>, <<"b", "a">>, <<"B">>}

\* String.toLowerCase on the UUID strings of the model
toLowerCase(uuid) == IF uuid = "A" THEN "a" ELSE IF uuid = "B" THEN "b" ELSE uuid

\* Array.sort with (a, b) => a.priority - b.priority, which is stable
RECURSIVE sortByPriority(_)
sortByPriority(ps) ==
  IF Len(ps) <= 1 THEN ps
  ELSE LET rest == sortByPriority(SubSeq(ps, 1, Len(ps) - 1))
           p    == ps[Len(ps)]
           k    == Cardinality({i \in 1..Len(rest) : rest[i].priority <= p.priority})
       IN SubSeq(rest, 1, k) \o <<p>> \o SubSeq(rest, k + 1, Len(rest))

register_noSort(providers, provider) == Append(providers, provider)

register(providers, provider) == sortByPriority(Append(providers, provider))

\* the loop over the uuids of one fulfilled result
RECURSIVE mergeUUIDs(_, _, _)
mergeUUIDs(uuidMap, provider, uuids) ==
  IF uuids = <<>> THEN uuidMap
  ELSE LET normalizedUUID == toLowerCase(Head(uuids))
           next == IF normalizedUUID \in DOMAIN uuidMap THEN uuidMap
                   ELSE [u \in DOMAIN uuidMap \cup {normalizedUUID} |->
                           IF u = normalizedUUID THEN provider ELSE uuidMap[u]]
       IN mergeUUIDs(next, provider, Tail(uuids))

\* the loop over the results of Promise.allSettled, which are in the order
\* of this.providers; a provider whose fetch failed has the result []
RECURSIVE mergeResults(_, _, _)
mergeResults(uuidMap, providers, results) ==
  IF providers = <<>> THEN uuidMap
  ELSE mergeResults(mergeUUIDs(uuidMap, Head(providers).name,
                               IF Head(results).ok THEN Head(results).uuids ELSE <<>>),
                    Tail(providers), Tail(results))

Pending == [ok |-> FALSE, uuids |-> <<>>, settled |-> FALSE]

Settled(ok, uuids) == [ok |-> ok, uuids |-> uuids, settled |-> TRUE]

\* manager.register(provider)
Register ==
  /\ manager.phase = "idle"
  /\ manager.registered < MaxProviders
  /\ \E priority \in Priorities :
        manager' = [manager EXCEPT
                      !.registered = @ + 1,
                      !.providers = register(@, [name |-> ProviderNames[manager.registered + 1],
                                                 priority |-> priority]),
                      !.last = [op |-> "register"]]
  /\ UNCHANGED <<muxVars, codec, worker, parser, socket>>

\* fetchFromProviders up to its await: every provider's fetchUUIDs is called
FetchStarted ==
  /\ manager.phase = "idle"
  /\ manager.providers # <<>>
  /\ manager' = [manager EXCEPT !.phase = "fetching",
                                 !.results = [i \in 1..Len(manager.providers) |-> Pending],
                                 !.order = <<>>,
                                 !.last = [op |-> "fetch"]]
  /\ UNCHANGED <<muxVars, codec, worker, parser, socket>>

\* the fetch of one provider resolves or rejects
FetchSettled ==
  /\ manager.phase = "fetching"
  /\ \E i \in 1..Len(manager.results), ok \in BOOLEAN, uuids \in Fetched :
        /\ ~manager.results[i].settled
        /\ ~ok => uuids = <<>>
        /\ manager' = [manager EXCEPT !.results[i] = Settled(ok, uuids),
                                       !.order = Append(@, manager.providers[i].name),
                                       !.last = [op |-> "settled"]]
  /\ UNCHANGED <<muxVars, codec, worker, parser, socket>>

\* every fetch has settled: fetchFromProviders merges and returns
FetchMerged ==
  /\ manager.phase = "fetching"
  /\ \A i \in 1..Len(manager.results) : manager.results[i].settled
  /\ manager' = [manager EXCEPT
                    !.phase = "idle",
                    !.last = [op |-> "merged",
                              uuidMap |-> mergeResults(<<>>, manager.providers, manager.results)]]
  /\ UNCHANGED <<muxVars, codec, worker, parser, socket>>

NextProviders == Register \/ FetchStarted \/ FetchSettled \/ FetchMerged

SpecProviders == Init /\ [][NextProviders]_vars

----------------------------------------------------------------------------
(* The cache store of the manager: TieredCache over the Cache API (L1) and, *)
(* when bound, KV (L2); without a binding the Cache API store alone.  The   *)
(* calls are made one after the other, each at one reading of the clock.    *)

\* CacheAPIStore.getMergedUUIDCache: an expired entry is deleted
l1Get(m) ==
  IF ~m.l1.present THEN [m |-> m, data |-> Null]
  ELSE IF m.now > m.l1.expiresAt THEN [m |-> [m EXCEPT !.l1 = Null], data |-> Null]
  ELSE [m |-> m, data |-> m.l1]

\* KVStore.getMergedUUIDCache
l2Get(m) ==
  IF ~m.l2.present THEN Null
  ELSE IF m.now > m.l2.expiresAt THEN Null
  ELSE m.l2

\* CacheAPIStore.setMergedUUIDCache and KVStore.setMergedUUIDCache
stored(m, uuidMap, ttlSeconds) == MergedUUIDCache(uuidMap, m.now + ttlSeconds * 1000)

getMergedUUIDCache_backfillsFullTTL(m) ==
  LET l1Data == l1Get(m)
  IN IF l1Data.data.present
       THEN [m |-> l1Data.m, data |-> l1Data.data, readL2 |-> FALSE]
     ELSE IF ~m.hasL2 THEN [m |-> l1Data.m, data |-> Null, readL2 |-> FALSE]
     ELSE LET l2Data == l2Get(m)
          IN IF ~l2Data.present THEN [m |-> l1Data.m, data |-> Null, readL2 |-> TRUE]
             ELSE [m |-> [l1Data.m EXCEPT !.l1 = stored(m, l2Data.uuidMap, m.cacheTTL)],
                   data |-> l2Data, readL2 |-> TRUE]

\* TieredCache.getMergedUUIDCache: the store after the call, the value
\* returned, and whether L2 was read
getMergedUUIDCache(m) ==
  LET l1Data == l1Get(m)
  IN IF l1Data.data.present
       THEN [m |-> l1Data.m, data |-> l1Data.data, readL2 |-> FALSE]
     ELSE IF ~m.hasL2 THEN [m |-> l1Data.m, data |-> Null, readL2 |-> FALSE]
     ELSE LET l2Data == l2Get(m)
              remainingTTL == (l2Data.expiresAt - m.now) \div 1000
          IN IF ~l2Data.present THEN [m |-> l1Data.m, data |-> Null, readL2 |-> TRUE]
             ELSE [m |-> IF remainingTTL > 0
                           THEN [l1Data.m EXCEPT !.l1 = stored(m, l2Data.uuidMap, remainingTTL)]
                           ELSE l1Data.m,
                   data |-> l2Data, readL2 |-> TRUE]

\* TieredCache.shouldWriteL2: a key without a last write counts as written
\* at time 0
shouldWriteL2(m) == m.hasL2 /\ m.now - m.l2LastWrite >= L2_WRITE_INTERVAL

\* TieredCache.setMergedUUIDCache
setMergedUUIDCache(m, uuidMap, ttlSeconds) ==
  LET m1 == [m EXCEPT !.l1 = stored(m, uuidMap, ttlSeconds)]
  IN IF shouldWriteL2(m1)
       THEN [m1 EXCEPT !.l2 = stored(m, uuidMap, ttlSeconds),
                       !.l2LastWrite = m.now,
                       !.l2Writes = Append(@, m.now)]
       ELSE m1

deleteMergedUUIDCache_l1Only(m) == [m EXCEPT !.l1 = Null]

\* TieredCache.deleteMergedUUIDCache
deleteMergedUUIDCache(m) ==
  IF m.hasL2 THEN [m EXCEPT !.l1 = Null, !.l2 = Null, !.l2LastWrite = 0]
  ELSE [m EXCEPT !.l1 = Null]

\* the results of the fetches of the registered providers
AllResults(m) ==
  [1..Len(m.providers) -> {Settled(TRUE, uuids) : uuids \in {<<>>, <<"a">>, <<"A", "b">>}}
                            \cup {Settled(FALSE, <<>>)}]

\* getAllUUIDs(forceRefresh) with the results its fetch gets, if it fetches.
\* fetched: the map of the fetch, or Null when the cache answered
getAllUUIDs(m, forceRefresh, results) ==
  LET cached == IF forceRefresh THEN [m |-> m, data |-> Null, readL2 |-> FALSE]
                ELSE getMergedUUIDCache(m)
      uuidMap == mergeResults(<<>>, m.providers, results)
  IN IF cached.data.present
       THEN [m |-> cached.m, uuids |-> DOMAIN cached.data.uuidMap, fetched |-> Null]
       ELSE [m |-> IF DOMAIN uuidMap # {}
                     THEN setMergedUUIDCache(cached.m, uuidMap, m.cacheTTL)
                     ELSE cached.m,
             uuids |-> DOMAIN uuidMap,
             fetched |-> [present |-> TRUE, uuidMap |-> uuidMap]]

\* refresh()
refresh(m, results) == getAllUUIDs(deleteMergedUUIDCache(m), TRUE, results)

\* the maps a caller of the cache store writes
UuidMaps == {[u \in {"a"} |-> "p1"], [u \in {"a", "b"} |-> "p2"]}

\* the steps of the clock between two calls, in milliseconds
Delays == {1, L2_WRITE_INTERVAL}

Called(m, op, before, more) ==
  /\ before.ops < MaxOps
  /\ manager' = [m EXCEPT !.ops = before.ops + 1,
                           !.last = [op |-> op, now |-> before.now, l1 |-> before.l1,
                                     l2 |-> before.l2, out |-> more]]
  /\ UNCHANGED <<muxVars, codec, worker, parser, socket>>

\* Date.now() is later at the next call
Tick ==
  /\ manager.ticks < MaxTicks
  /\ \E d \in Delays :
        manager' = [manager EXCEPT !.now = @ + d, !.ticks = @ + 1, !.last = [op |-> "tick"]]
  /\ UNCHANGED <<muxVars, codec, worker, parser, socket>>

\* the Cache API drops the entry: cache.match finds no response
L1Evicted ==
  /\ manager.l1.present
  /\ manager' = [manager EXCEPT !.l1 = Null, !.last = [op |-> "evicted"]]
  /\ UNCHANGED <<muxVars, codec, worker, parser, socket>>

RegisterCached ==
  /\ manager.registered < MaxCacheProviders
  /\ Register

CacheGet ==
  LET got == getMergedUUIDCache(manager)
  IN Called(got.m, "get", manager, [data |-> got.data, readL2 |-> got.readL2])

CacheSet ==
  \E uuidMap \in UuidMaps :
    Called(setMergedUUIDCache(manager, uuidMap, manager.cacheTTL), "set", manager,
           [uuidMap |-> uuidMap])

CacheDelete == Called(deleteMergedUUIDCache(manager), "delete", manager, [data |-> Null])

GetAllUUIDs ==
  \E results \in AllResults(manager) :
    LET got == getAllUUIDs(manager, FALSE, results)
    IN Called(got.m, "getAllUUIDs", manager, [uuids |-> got.uuids, fetched |-> got.fetched])

Refresh ==
  \E results \in AllResults(manager) :
    LET got == refresh(manager, results)
    IN Called(got.m, "refresh", manager, [uuids |-> got.uuids, fetched |-> got.fetched])

InitCache ==
  /\ MuxSessionInit(MaxBudget)
  /\ tunnel = MuxTunnel
  /\ codec = NoCodec
  /\ \E hasL2 \in BOOLEAN, cacheTTL \in {1, DEFAULT_CACHE_TTL} :
        manager = NewManager(hasL2, cacheTTL)
  /\ worker = NoRequest
  /\ parser = NoStream
  /\ socket = NoSocket

NextCache ==
  \/ Tick
  \/ L1Evicted
  \/ RegisterCached
  \/ CacheGet
  \/ CacheSet
  \/ CacheDelete
  \/ GetAllUUIDs
  \/ Refresh

SpecCache == InitCache /\ [][NextCache]_vars

----------------------------------------------------------------------------
(* The Worker's fetch: the manager of the request, the API key and the     *)
(* HTTP paths.  A header, a query parameter and API_KEY are absent or a    *)
(* string, a string being the sequence of its pieces; a path is the        *)
(* sequence of its segments.  RW_API_URL and RW_API_KEY are not set, so    *)
(* that no Remnawave provider is registered.                               *)

DEFAULT_UUID == "d"

Absent == [present |-> FALSE, value |-> <<>>]

Str(value) == [present |-> TRUE, value |-> value]

\* neither undefined, null nor the empty string
truthy(v) == v.present /\ v.value # <<>>

\* a || b
or(a, b) == IF truthy(a) THEN a ELSE b

\* String.replace(pattern, ''): the first occurrence only
RECURSIVE replace(_, _)
replace(value, pattern) ==
  IF value = <<>> THEN <<>>
  ELSE IF Head(value) = pattern THEN Tail(value)
  ELSE <<Head(value)>> \o replace(Tail(value), pattern)

\* UUID_REGEX.test, which ignores case, on the UUID strings of the model
isValidUUID(uuid) == uuid \in {"a", "A", "b", "B", DEFAULT_UUID}

isDevMode(env) == env.DEV_MODE = "true"

validateApiKey(request, apiKey) ==
  LET headerKey == or(request.XApiKey,
                      IF request.Authorization.present
                        THEN Str(replace(request.Authorization.value, "Bearer "))
                        ELSE Absent)
      queryKey == request.key
      providedKey == or(headerKey, queryKey)
  IN IF ~truthy(apiKey)
       THEN [valid |-> FALSE, error |-> "API access disabled: API_KEY not configured"]
     ELSE IF ~truthy(providedKey)
       THEN [valid |-> FALSE, error |-> "API key required"]
     ELSE IF providedKey.value # apiKey.value
       THEN [valid |-> FALSE, error |-> "Invalid API key"]
     ELSE [valid |-> TRUE, error |-> ""]

StaticUUIDProvider(uuids, priority) ==
  [name |-> "static", priority |-> priority, staticUUIDs |-> uuids]

\* createUUIDManager: the manager and its cache store are new objects, the
\* entries of the Cache API and of KV are those left by earlier requests
createUUIDManager(defaultUUID, m) ==
  LET fresh == [m EXCEPT !.providers = <<>>, !.l2LastWrite = 0]
  IN IF defaultUUID # "" /\ isValidUUID(defaultUUID)
       THEN [fresh EXCEPT !.providers = register(@, StaticUUIDProvider(<<defaultUUID>>, 0))]
       ELSE fresh

initializeUUIDManager(defaultUUID, env, m) ==
  LET devMode == isDevMode(env)
      effectiveDefaultUUID == IF devMode THEN defaultUUID ELSE ""
  IN createUUIDManager(effectiveDefaultUUID, m)

\* what the fetches of the providers of this manager resolve to
StaticResults(m) == [i \in 1..Len(m.providers) |-> Settled(TRUE, m.providers[i].staticUUIDs)]

Response(status, error, calls, m) ==
  [status |-> status, error |-> error, calls |-> calls, m |-> m]

\* handleHttpRequest; calls: the operations of the manager it runs
handleHttpRequest(request, validUUIDs, m, env) ==
  LET pathname == request.pathname
      authResult == validateApiKey(request, env.API_KEY)
  IN IF Len(pathname) >= 2 /\ pathname[1] = "api" /\ ~authResult.valid
       THEN Response(401, authResult.error, <<>>, m)
     ELSE IF pathname = <<>> THEN Response(200, "", <<>>, m)
     ELSE IF pathname = <<"api", "uuids">>
       THEN Response(200, "", <<"getAllUUIDs">>, getAllUUIDs(m, FALSE, StaticResults(m)).m)
     ELSE IF pathname = <<"api", "uuids", "refresh">>
       THEN Response(200, "", <<"refresh", "getAllUUIDs">>,
                     getAllUUIDs(refresh(m, StaticResults(m)).m, FALSE, StaticResults(m)).m)
     ELSE IF pathname = <<"api", "stats">>
       THEN Response(200, "", <<"getStats">>, getMergedUUIDCache(m).m)
     ELSE Response(404, "", <<>>, m)

\* fetch of the Worker.  early: the operations of the manager run before
\* the request is looked at
fetch(m, env, request) ==
  LET userID == IF env.UUID # "" THEN env.UUID ELSE DEFAULT_UUID
      uuidManager == initializeUUIDManager(userID, env, m)
      got == getAllUUIDs(uuidManager, FALSE, StaticResults(uuidManager))
      validUUIDs == got.uuids
      response == IF request.Upgrade = "websocket" THEN Response(101, "", <<>>, got.m)
                  ELSE handleHttpRequest(request, validUUIDs, got.m, env)
  IN [userID |-> userID, providers |-> uuidManager.providers, validUUIDs |-> validUUIDs,
      early |-> <<"getAllUUIDs">>, response |-> response]

ApiEnvs == [API_KEY : {Absent, Str(<<"k">>)}, DEV_MODE : {"true"}, UUID : {"a"}]

\* requests to /api/uuids with the ways of presenting a key, and requests to
\* the other paths under /api/ with the X-API-Key header
ApiRequests ==
  [env : ApiEnvs,
   request : [pathname : {<<"api", "uuids">>},
              XApiKey : {Absent, Str(<<"k">>), Str(<<"x">>)},
              Authorization : {Absent, Str(<<"Bearer ", "k">>), Str(<<"k">>),
                               Str(<<"Bearer ", "x">>)},
              key : {Absent, Str(<<"k">>), Str(<<"x">>)},
              Upgrade : {""}]]
  \cup
  [env : ApiEnvs,
   request : [pathname : {<<"api", "uuids", "refresh">>, <<"api", "stats">>,
                          <<"api", "other">>},
              XApiKey : {Absent, Str(<<"k">>), Str(<<"x">>)},
              Authorization : {Absent}, key : {Absent}, Upgrade : {""}]]

\* requests with the key, under the settings of DEV_MODE and UUID
ModeRequests ==
  [env : [API_KEY : {Str(<<"k">>)}, DEV_MODE : {"", "true", "TRUE"},
          UUID : {"", "a", "bad"}],
   request : [pathname : {<<>>, <<"api", "uuids">>, <<"a">>},
              XApiKey : {Str(<<"k">>)}, Authorization : {Absent}, key : {Absent},
              Upgrade : {"", "websocket"}]]

MaxRequests == 2

\* one request is served
Fetch ==
  /\ worker.requests < MaxRequests
  /\ \E r \in ApiRequests \cup ModeRequests :
        LET out == fetch(manager, r.env, r.request)
        IN /\ worker' = [op |-> "fetch", requests |-> worker.requests + 1,
                         env |-> r.env, request |-> r.request,
                         userID |-> out.userID, providers |-> out.providers,
                         validUUIDs |-> out.validUUIDs, early |-> out.early,
                         status |-> out.response.status, error |-> out.response.error,
                         calls |-> out.response.calls, before |-> manager.l1]
           /\ manager' = out.response.m
  /\ UNCHANGED <<muxVars, codec, parser, socket>>

\* the Cache API drops the entry between two requests
WorkerCacheEvicted ==
  /\ worker.op = "fetch"
  /\ L1Evicted

NextWorker == Fetch \/ WorkerCacheEvicted

SpecWorker == Init /\ [][NextWorker]_vars

----------------------------------------------------------------------------
(* Properties of the Mux session *)

\* the step dispatches a frame of the given status
IsFrameStep(status) == nframes' = nframes + 1 /\ ev'.op = status

IsNewStep == IsFrameStep("New")

EndSent(id) == <<[frame |-> buildMuxEndFrame(id), prefix |-> tx.msgs = 0, ok |-> TRUE]>>

\* a TCP New frame was turned down: End(id) went out, no record, no connect
Turned(id) ==
  /\ subs' = subs
  /\ connections' = connections
  /\ stats'.totalTCPConnections = stats.totalTCPConnections
  /\ ev'.sent = EndSent(id)

\* C1: totalTCPConnections never exceeds maxSubrequests, and a TCP New frame
\* that arrives when limitReached is set or the budget is used up is answered
\* with End(id) and creates neither a sub-connection record nor a socket.
C1_BudgetRespected ==
  /\ [](stats.totalTCPConnections <= maxSubrequests)
  /\ [][(IsNewStep /\ (stats.limitReached \/ stats.totalTCPConnections >= maxSubrequests))
          => Turned(ev'.id)]_vars

C1_Witness ==
  /\ ev.op = "New" /\ ev.rec = 0 /\ ev.sent # NoSend
  /\ stats.totalTCPConnections = maxSubrequests
  /\ Len(subs) = maxSubrequests

Holds(j) == InTable(subs[j].id) /\ connections[subs[j].id] = j

\* the step sends End(id) to the client
SendsEnd(id) == \E k \in 1..Len(ev'.sent) : ev'.sent[k].frame = buildMuxEndFrame(id)

C4_WritesInArrivalOrder ==
  \A i \in 1..Len(subs) :
     \A k \in 1..Len(subs[i].written) : subs[i].written[k] = k

\* C5: when End(id) is handled in the same chunk that created the
\* sub-connection, the payloads received for id with the New frame and the
\* Keep frames have been handed to the upstream socket before the
\* sub-connection is closed; End does not discard them.
C5_EndKeepsPayload ==
  [][(IsFrameStep("End") /\ ev'.rec \in chunk.created)
       => (subs'[ev'.rec].closed =>
             /\ Len(subs'[ev'.rec].written) = subs'[ev'.rec].rx
             /\ \A k \in 1..subs'[ev'.rec].rx : subs'[ev'.rec].written[k] = k)]_vars

\* C8: no sub-id is at once a key of the active table and a member of
\* endedSessions.
C8_ActiveEndedDisjoint ==
  \A id \in DOMAIN connections : id \notin SeqRange(endedSessions)

\* C9: for every sub-connection record, ready implies that the socket writer
\* is held, and closed implies that the socket is closed and the record is
\* not in the active table.
C9_RecordFlags ==
  \A i \in 1..Len(subs) :
     /\ subs[i].ready => subs[i].writer = "held"
     /\ subs[i].closed => (subs[i].socket = "closed" /\ ~Holds(i))

\* the callbacks that handle a failure or the upstream close of one sub
ErrorOps == {"ConnectRejected", "FlushRejected", "KeepWriteRejected", "PipeClose", "PipeAbort"}

\* C10: a connect failure, a write error or an upstream close of one
\* sub-connection leaves the session and the WebSocket open and leaves every
\* other record as it was: not changed, not removed from the active table,
\* and no End frame sent for an id that the table maps to another record.
C10_ErrorsLocal ==
  [][ev'.op \in ErrorOps =>
       LET i == ev'.rec
       IN /\ closed' = closed
          /\ wsState' = wsState
          /\ \A j \in (1..Len(subs)) \ {i} :
                /\ subs'[j] = subs[j]
                /\ Holds(j) => (subs[j].id \in DOMAIN connections'
                                 /\ connections'[subs[j].id] = j)
                /\ (ev'.sent # NoSend /\ subs[j].id = subs[i].id) => ~Holds(j)]_vars

\* C6: on every tunnel the response prefix is delivered at most once and it
\* opens the first message the client receives, in TCP, DNS and Mux mode,
\* also after a retry of the TCP connect and after a send that threw.
C6_PrefixOnceAndFirst ==
  /\ tx.prefixed <= 1
  /\ tx.msgs > 0 => tx.firstPrefixed

C6_Witness ==
  /\ tx.failed
  /\ tx.msgs = 2
  /\ tx.prefixed = 1
  /\ tx.firstPrefixed

\* C7: when the validator rejects the UUID of the greeting the WebSocket is
\* closed, nothing has been sent to the client, no TCP connect and no DoH
\* request has been issued and no Mux session exists.
C7_UnauthorizedSilent ==
  tunnel.uuid = "invalid" =>
    /\ wsState = WS_CLOSED
    /\ tunnel.mode = "closed"
    /\ tx = NewTx
    /\ ev.sent = NoSend
    /\ tunnel.connects = 0
    /\ tunnel.doh = 0 /\ tunnel.queries = 0
    /\ subs = <<>> /\ dns = <<>> /\ stats = NewStats

C7_Witness ==
  /\ tunnel.uuid = "invalid"
  /\ tunnel.header = "unauthorized"
  /\ wsState = WS_CLOSED

\* a record whose socket was opened
Opened(i) == subs[i].socket # "none"

\* C11: once the session is closed, every upstream socket that was opened
\* for a sub-connection is closed and its writer is released, also for subs
\* that were connecting and for subs whose table entry a later New frame
\* with the same id replaced.
C11_TeardownClosesAll ==
  closed => \A i \in 1..Len(subs) :
              Opened(i) => (subs[i].socket = "closed" /\ subs[i].writer # "held")

\* the session fields other than the last-callback record are unchanged
SessionUnchanged ==
  UNCHANGED <<subs, connections, endedSessions, stats, closed, maxSubrequests, wq, wsState,
              dns, chunk, nframes, strangerEnded, tx, tunnel, wire, pureVars>>

\* C12: close() leaves the active table and endedSessions empty,
\* activeConnections = 0 and closed = true; a second close() changes
\* nothing, and a processData call after close dispatches no frame and
\* changes no state.
C12_CloseIdempotent ==
  [][/\ (ev'.op = "Close" /\ ~closed) =>
          (/\ connections' = EmptyMap
           /\ endedSessions' = <<>>
           /\ stats'.activeConnections = 0
           /\ closed')
      /\ ((ev'.op = "Close" /\ closed) => SessionUnchanged)
      /\ (ev'.op = "processData" => (closed /\ SessionUnchanged))]_vars

C12_Witness ==
  /\ ev.op = "processData"
  /\ closed
  /\ connections = EmptyMap /\ endedSessions = <<>> /\ stats.activeConnections = 0
  /\ \E i \in 1..Len(subs) : subs[i].closed /\ subs[i].socket = "closed"
  /\ \E i \in 1..Len(subs) : ~Holds(i) /\ subs[i].pc = "done"

\* C13: the messages delivered on the WebSocket carry the frames in the
\* order of the enqueue calls: no frame is delivered twice and none
\* overtakes an earlier one, also after a send that threw.
C13_SentInEnqueueOrder ==
  /\ \A k \in 1..Len(wire.sent) : wire.sent[k] \in 1..wire.enq
  /\ \A k \in 1..Len(wire.sent) - 1 : wire.sent[k] < wire.sent[k + 1]

C13_Witness ==
  /\ wire.enq = 3
  /\ wire.sent = <<1, 3>>
  /\ ev.op = "enqueue" /\ Len(ev.sent) = 1 /\ ev.sent[1].ok

\* C14: the bytes delivered on the WebSocket are the sum of the lengths of
\* all frames for which enqueue was called, plus the length of the response
\* prefix once it was sent.
C14_WireBytes ==
  wire.bytes = wire.enqBytes + (IF wq.headerSent THEN RESPONSE_HEADER_LENGTH ELSE 0)

\* the greeting passed the length check and the validator
Authorized(g) == ~g.short /\ g.uuidOk

\* what in a greeting asks for Mux: the command byte or the sentinel address
Trigger(g) ==
  IF g.command = CMD_MUX THEN "command"
  ELSE IF g.command \in {CMD_TCP, CMD_UDP} /\ g.address = "v1.mux.cool" THEN "address"
  ELSE "none"

\* C15: with Mux enabled an authorized greeting puts the tunnel in Mux mode
\* exactly when its command byte is MUX or its command is TCP or UDP and its
\* address is "v1.mux.cool"; the bytes after the header are then given to
\* processData as the first frames.  Mux mode is entered by the greeting only.
C15_MuxTriggers ==
  [][/\ (ev'.op = "Greeting" /\ Authorized(ev'.greeting) /\ tunnel.muxEnabled) =>
          (/\ (tunnel'.mode = "mux") <=> (Trigger(ev'.greeting) # "none")
           /\ tunnel'.mode = "mux" =>
                 (chunk'.open = ev'.greeting.hasData /\ wsState' = WS_OPEN /\ ~closed'))
      /\ ((tunnel'.mode = "mux" /\ tunnel.mode # "mux") => ev'.op = "Greeting")]_vars

C15_Witness ==
  /\ ev.op = "Greeting"
  /\ ev.greeting.command = CMD_UDP /\ ev.greeting.address = "v1.mux.cool"
  /\ ev.greeting.hasData
  /\ tunnel.mode = "mux" /\ tunnel.muxEnabled
  /\ chunk.open

\* C16: with MUX_ENABLED = "false" the tunnel is never in Mux mode and no
\* Mux session state exists; an authorized greeting, also one with the MUX
\* command or the sentinel address, is handled by the TCP relay or by the
\* UDP branch (DNS on port 53, closed otherwise); the TCP relay leaves the
\* tunnel without a mode only when its connect() throws at once.
C16_MuxDisabled ==
  tunnel.MUX_ENABLED = "false" =>
    /\ tunnel.mode # "mux"
    /\ subs = <<>> /\ dns = <<>> /\ nframes = 0 /\ ~chunk.open /\ ~closed
    /\ stats = NewStats /\ wq = NewWriteQueue
    /\ (tunnel.uuid = "valid" /\ tunnel.header = "ok") =>
           \/ tunnel.mode \in {"tcp", "dns", "closed"}
           \/ /\ tunnel.mode = "greeting"
              /\ ev.op = "Greeting" =>
                    (ev.greeting.command = CMD_TCP /\ connectThrows(ev.greeting.address))

C16_Witness ==
  /\ tunnel.MUX_ENABLED = "false"
  /\ ev.op = "Greeting" /\ ev.greeting.command = CMD_MUX /\ ev.greeting.hasData
  /\ tunnel.mode = "tcp"
  /\ tunnel.targets = <<[address |-> "mux.cool", port |-> 0, data |-> 1]>>

\* C17: a TCP tunnel makes at most two outbound connects, the initial one
\* and at most one retry, however the two connections end.
C17_AtMostTwoConnects ==
  /\ tunnel.connects <= 2
  /\ Len(tunnel.targets) = tunnel.connects

C17_Witness ==
  /\ tunnel.mode = "tcp"
  /\ tunnel.connects = 2
  /\ tunnel.pc = "done"
  /\ ~tunnel.hasIncomingData
  /\ ev.op \in {"TcpRemoteEof", "TcpRemoteError"}

\* C18: the retry is made exactly when the first connection reached remote
\* EOF without having delivered a byte; it connects to the proxy host, or to
\* the original address when none is configured, on the same port, and
\* replays the initial payload.
C18_RetryOnSilentEof ==
  tunnel.mode = "tcp" =>
    /\ (tunnel.connects = 2) <=> (tunnel.firstEnd = "eof" /\ ~tunnel.firstData)
    /\ tunnel.connects = 2 =>
          tunnel.targets[2] =
            [address |-> IF tunnel.proxyIP # "" THEN tunnel.proxyIP
                         ELSE tunnel.targets[1].address,
             port    |-> tunnel.targets[1].port,
             data    |-> tunnel.targets[1].data]

\* C19: in TCP mode a remote EOF never closes the WebSocket and a remote
\* read or pipe error always does, on the first and on the retry connection.
C19_EofKeepsWebSocket ==
  [][/\ (ev'.op = "TcpRemoteEof" => wsState' = wsState)
      /\ (ev'.op = "TcpRemoteError" => wsState' = WS_CLOSED)]_vars

C22_DnsOnlyPort53 ==
  [][/\ Len(dns') > Len(dns) => subs'[ev'.rec].port = 53
      /\ \A i \in 1..Len(subs') :
            (/\ ev'.op \in {"New", "Keep"} /\ ev'.rec = i
             /\ subs'[i].network = UDP /\ subs'[i].port # 53
             /\ subs'[i].rx > (IF i \in 1..Len(subs) THEN subs[i].rx ELSE 0))
            => (/\ SendsEnd(subs'[i].id)
                /\ subs'[i].id \in SeqRange(endedSessions')
                /\ subs'[i].id \notin DOMAIN connections')]_vars

\* the step called markSessionEnded(ev'.id) for an id outside the active table
MarksEnded ==
  \/ ev'.op = "End" /\ ev'.rec = 0
  \/ ev'.op = "Keep" /\ ev'.rec = 0 /\ ev'.sent # NoSend

\* C23: endedSessions never holds more than 256 ids; when an id is marked
\* ended while the set holds 256 entries, the oldest half of the entries is
\* removed before the id is added.
C23_EndedBounded ==
  /\ [](Len(endedSessions) <= 256)
  /\ [][(Len(endedSessions) = 256 /\ MarksEnded) =>
          LET kept == SubSeq(endedSessions, 129, 256)
          IN endedSessions' = IF ev'.id \in SeqRange(kept) THEN kept ELSE Append(kept, ev'.id)]_vars

C23_Witness ==
  /\ Len(endedSessions) = 129
  /\ endedSessions[1] > 1
  /\ endedSessions[129] = ev.id
  /\ ev.op = "Keep" /\ ev.sent # NoSend

----------------------------------------------------------------------------
(* Properties of the Mux frame codec *)

\* the frame parsed last is the whole of a frame built by buildMuxKeepFrame
\* or buildMuxEndFrame
Parsed == codec.op = "parsed"

IsRoundTrip == Parsed /\ codec.call \in {"Keep", "End"} /\ codec.cut = codec.size

\* the frame parsed is the frame built: id, status, data option, data, length
SameFrame ==
  /\ ~codec.res.hasError
  /\ codec.res.id = codec.id
  /\ codec.res.status = codec.status
  /\ codec.res.hasData = (Len(payloadOf(codec)) > 0)
  /\ codec.res.data = payloadOf(codec)
  /\ codec.res.frameLength = codec.size

\* C24: for every sub-id of 16 bits and every payload, parsing the bytes of
\* buildMuxKeepFrame(id, data) or of buildMuxEndFrame(id) succeeds and gives
\* a frame with the same id, status, data option and data, whose frameLength
\* is the length of the built byte array.
C24_RoundTrip == IsRoundTrip => SameFrame

\* the round trip of a payload of at most 65535 bytes, the largest length
\* that the length field holds
C24_RoundTripFits == (IsRoundTrip /\ Len(payloadOf(codec)) < 256 * 256) => SameFrame

C24_Witness ==
  /\ IsRoundTrip
  /\ codec.call = "Keep"
  /\ codec.id = 258
  /\ codec.data = <<255, 0>>
  /\ SameFrame /\ codec.res.frameLength = 10

\* a proper prefix of a well-formed frame was parsed
IsPrefix ==
  /\ Parsed
  /\ codec.wellFormed
  /\ codec.pad < 256 * 256
  /\ codec.cut < codec.size

\* a proper prefix of a well-formed frame gives an incomplete result
C25_PrefixIncomplete ==
  IsPrefix => (codec.res.hasError /\ ~codec.res.threw /\ codec.res.message \in Incomplete)

\* C25: parseMuxFrame on a proper prefix of a well-formed frame returns an
\* incomplete result: it neither throws nor returns a frame; and in every
\* parse that gets as far as the metadata it reads no byte of the metadata
\* beyond the declared metadata length.
C25_ReadsWithinDeclared ==
  /\ C25_PrefixIncomplete
  /\ Parsed =>
        /\ ~codec.res.threw
        /\ codec.cut >= 2 => codec.res.read <= 2 + getUint16(frameOf(codec), 0)

C25_PrefixWitness ==
  /\ IsPrefix
  /\ codec.call = "Client"
  /\ codec.cut = 12
  /\ codec.res.message = "Incomplete Mux metadata"

----------------------------------------------------------------------------
(* Properties of the UUID manager *)

\* the providers that returned a string whose lower case is uuid
Returned(uuid) ==
  {i \in 1..Len(manager.providers) :
     /\ manager.results[i].ok
     /\ \E k \in 1..Len(manager.results[i].uuids) :
          toLowerCase(manager.results[i].uuids[k]) = uuid}

\* the number of registration of a provider
RegisteredAs(i) ==
  CHOOSE n \in 1..Len(ProviderNames) : ProviderNames[n] = manager.providers[i].name

\* provider i comes before provider j: lower priority number, then earlier
\* registration
Before(i, j) ==
  \/ manager.providers[i].priority < manager.providers[j].priority
  \/ /\ manager.providers[i].priority = manager.providers[j].priority
     /\ RegisteredAs(i) <= RegisteredAs(j)

\* C27: the merge returns the map that gives each lower-case UUID returned
\* by at least one provider the name of the provider with the lowest
\* priority number among those that returned it, the earlier registered
\* on a tie, whatever the order in which the fetches completed; a provider
\* whose fetch failed contributes nothing and the others are merged.
C27_MergeByPriority ==
  manager.last.op = "merged" =>
    /\ DOMAIN manager.last.uuidMap = {u \in {"a", "b", "A", "B"} : Returned(u) # {}}
    /\ \A u \in DOMAIN manager.last.uuidMap :
         \E i \in Returned(u) :
           /\ manager.last.uuidMap[u] = manager.providers[i].name
           /\ \A j \in Returned(u) : Before(i, j)

C27_Witness ==
  /\ manager.last.op = "merged"
  /\ manager.order = <<"p1", "p2">>
  /\ manager.providers = <<[name |-> "p2", priority |-> 0], [name |-> "p1", priority |-> 1]>>
  /\ manager.results[1].uuids = <<"A", "b">>
  /\ manager.results[2].uuids = <<"b", "a">>
  /\ manager.last.uuidMap = [u \in {"a", "b"} |-> "p2"]

\* the entry was held and had not expired when the call was made
Unexpired(entry) == entry.present /\ manager.last.now <= entry.expiresAt

\* the call was getMergedUUIDCache, L1 held no unexpired entry and L2 did
L2Hit ==
  /\ manager.last.op = "get"
  /\ ~Unexpired(manager.last.l1)
  /\ manager.hasL2
  /\ Unexpired(manager.last.l2)

\* L1 holds the entry of L2, with an expiry not later than that of L2
Backfilled ==
  /\ manager.l1.present
  /\ manager.l1.uuidMap = manager.last.l2.uuidMap
  /\ manager.l1.expiresAt <= manager.last.l2.expiresAt

\* with an unexpired L1 entry the call returns it and does not read L2;
\* without an unexpired entry in L1 or L2 it returns null
L1FirstElseNull ==
  /\ (manager.last.op = "get" /\ Unexpired(manager.last.l1))
       => (manager.last.out.data = manager.last.l1 /\ ~manager.last.out.readL2)
  /\ (manager.last.op = "get" /\ ~Unexpired(manager.last.l1) /\ ~L2Hit)
       => manager.last.out.data = Null

Spaced ==
  \A i, j \in 1..Len(manager.l2Writes) :
    i < j => manager.l2Writes[j] - manager.l2Writes[i] >= L2_WRITE_INTERVAL

\* C29: every set writes L1, and two L2 writes for the key are at least
\* l2WriteInterval apart, for every sequence of sets and deletes.
C29_L2WritesSpaced ==
  /\ manager.last.op = "set" =>
       manager.l1 = MergedUUIDCache(manager.last.out.uuidMap,
                                    manager.last.now + manager.cacheTTL * 1000)
  /\ Spaced

\* what a tier holds is the map of the fetch, or nothing when it is empty
HoldsFetched(tier, fetched) ==
  IF DOMAIN fetched.uuidMap = {} THEN tier = Null
  ELSE tier.present /\ tier.uuidMap = fetched.uuidMap

----------------------------------------------------------------------------
(* Properties of the greeting parser *)

\* C26: processHeader on a greeting whose address is a Domain with length
\* byte 0 returns an error and never succeeds with an empty address, and the
\* dispatcher makes no outbound connect for it.
C26_EmptyDomainRejected ==
  /\ (/\ ev.op = "Greeting"
      /\ ~ev.greeting.short
      /\ ev.greeting.uuidOk
      /\ ev.greeting.command \in {CMD_TCP, CMD_UDP}
      /\ ev.greeting.address = "")
     => (tunnel.header # "ok" /\ tunnel.connects = 0)
  /\ \A k \in 1..Len(tunnel.targets) : tunnel.targets[k].address # ""

----------------------------------------------------------------------------
(* Properties of the Worker's fetch *)

\* a request to one of the three API paths has been answered
ApiAnswered ==
  /\ worker.op = "fetch"
  /\ worker.request.Upgrade = ""
  /\ worker.request.pathname \in {<<"api", "uuids">>, <<"api", "uuids", "refresh">>,
                                  <<"api", "stats">>}

\* the request carries the configured key in one of the three places
PresentsKey ==
  /\ truthy(worker.env.API_KEY)
  /\ \/ worker.request.XApiKey = worker.env.API_KEY
     \/ /\ worker.request.Authorization.present
        /\ worker.request.Authorization.value = <<"Bearer ">> \o worker.env.API_KEY.value
     \/ worker.request.key = worker.env.API_KEY

\* C31: a request to /api/uuids, /api/uuids/refresh or /api/stats is answered
\* 200 by its handler exactly when API_KEY is configured and the request
\* presents it in X-API-Key, in Authorization: Bearer or in ?key=; otherwise
\* the answer is 401 with an error and no operation of the manager has run.
C31_ApiKeyRequired ==
  ApiAnswered =>
    /\ (worker.status = 200) <=> PresentsKey
    /\ (worker.status # 200) =>
          /\ worker.status = 401
          /\ worker.error # ""
          /\ worker.early \o worker.calls = <<>>

\* the value of UUID, or the built-in default, is among the authorized UUIDs
DefaultAuthorized == worker.op = "fetch" /\ toLowerCase(worker.userID) \in worker.validUUIDs

StaticRegistered == worker.op = "fetch" /\ worker.providers # <<>>

\* C32: the UUID value (or the built-in default) is registered as a static
\* provider, and thereby authorized, only when DEV_MODE is exactly "true" and
\* the value is a well-formed UUID; no other provider being configured, it is
\* authorized in no other configuration.
C32_DefaultOnlyInDevMode ==
  (worker.op = "fetch") =>
    /\ StaticRegistered <=> (worker.env.DEV_MODE = "true" /\ isValidUUID(worker.userID))
    /\ DefaultAuthorized => (worker.env.DEV_MODE = "true" /\ isValidUUID(worker.userID))

----------------------------------------------------------------------------
(* Properties of processData on bytes *)

Parsing == parser.op # "none"

WellFormed == Parsing /\ \A i \in 1..Len(parser.stream.frames) : ~parser.stream.frames[i].malformed

\* the frames of the stream, as handleFrame is to get them
StreamFrames ==
  [i \in 1..(Len(parser.stream.frames) + parser.stream.tail) |->
     IF i <= Len(parser.stream.frames)
       THEN [id |-> parser.stream.frames[i].id, status |-> parser.stream.frames[i].status,
             data |-> parser.stream.frames[i].data]
       ELSE [id |-> 0, status |-> MuxStatus.End, data |-> <<>>]]

\* the offset in the stream at which frame i ends
FrameEnd(i) ==
  LET k == Min(i, Len(parser.stream.frames))
  IN Len(Flatten(SubSeq(parser.stream.frames, 1, k))) + (i - k) * Len(buildMuxEndFrameBytes(0))

\* the number of frames whose bytes have all been received
Received == Cardinality({i \in 1..Len(StreamFrames) : FrameEnd(i) <= parser.sent})

\* C33: for a stream of well-formed frames, however it is cut into chunks,
\* when processData has returned the frames dispatched so far are exactly the
\* frames received whole, in the order of the stream and once each, and the
\* buffer holds the bytes of the frame that is still incomplete, and no
\* others; this for a chunk of more frames than the loop has iterations too.
C33_ParsedToExhaustion ==
  WellFormed =>
    /\ parser.frames = SubSeq(StreamFrames, 1, Received)
    /\ parser.buffer = SubSeq(StreamBytes(parser.stream), FrameEnd(Received) + 1, parser.sent)

\* the same for the streams of at most as many frames as the loop has
\* iterations
C33_ParsedUpToTheCap ==
  (WellFormed /\ Len(StreamFrames) <= MAX_ITERATIONS) =>
    /\ parser.frames = SubSeq(StreamFrames, 1, Received)
    /\ parser.buffer = SubSeq(StreamBytes(parser.stream), FrameEnd(Received) + 1, parser.sent)

\* a chunk held more whole frames than the loop has iterations
C33_OverTheCap ==
  /\ WellFormed
  /\ parser.op = "processData"
  /\ Len(parser.frames) = MAX_ITERATIONS
  /\ Received = MAX_ITERATIONS + 1
  /\ Len(parser.buffer) = Len(buildMuxEndFrameBytes(0))

\* the place of the malformed frame in the stream
BadIndex == CHOOSE i \in 1..Len(parser.stream.frames) : parser.stream.frames[i].malformed

\* processData has had the malformed frame whole in its bytes
MalformedMet == Parsing /\ ~WellFormed /\ parser.sent >= FrameEnd(BadIndex)

NoLaterFrame == MalformedMet => parser.frames = SubSeq(StreamFrames, 1, BadIndex - 1)

\* C34: once processData has met a malformed frame, no frame placed after it
\* is dispatched, and the bytes of the chunks that follow are not added to
\* the buffer.
C34_MalformedEndsParsing ==
  /\ []NoLaterFrame
  /\ [][MalformedMet => Len(parser'.buffer) <= Len(parser.buffer)]_vars

\* no frame placed after the malformed one is ever dispatched
C34_NoFrameAfterMalformed == []NoLaterFrame

\* the buffer holds the malformed frame and all the bytes that came after it
C34_BufferGrows ==
  /\ MalformedMet
  /\ parser.chunks > 1
  /\ parser.sent = Len(StreamBytes(parser.stream))
  /\ parser.buffer = SubSeq(StreamBytes(parser.stream), FrameEnd(BadIndex - 1) + 1, parser.sent)

----------------------------------------------------------------------------
(* Properties of the dispatcher of a tunnel *)

\* a greeting has been parsed and classified without error
Classified == tunnel.header = "ok"

\* C35: the greeting is parsed once, on the first chunk: after a successful
\* classification no later chunk is parsed as a greeting, and the mode that
\* was selected is kept until the tunnel closes, whatever becomes of the
\* outbound connect.
C35_GreetingOnce ==
  [][/\ Classified => ev'.op # "Greeting"
     /\ (tunnel.mode \in {"mux", "dns", "tcp"}) => (tunnel'.mode \in {tunnel.mode, "closed"})]_vars

\* what holds: a tunnel that has a mode keeps it, and parses no greeting
C35_ModeKept ==
  [][(tunnel.mode \in {"mux", "dns", "tcp"}) =>
        (ev'.op # "Greeting" /\ tunnel'.mode \in {tunnel.mode, "closed"})]_vars

\* C38: in TCP mode a chunk of the client that arrives while connectAndWrite
\* still holds the writer for the initial data (first connect or retry) does
\* not fail the tunnel.
C38_NoWriterContention ==
  [][(tunnel.mode = "tcp" /\ writerLocked(tunnel) /\ ev'.op = "TcpClientChunk") =>
        (tunnel'.sink = "open" /\ wsState' = WS_OPEN)]_vars

----------------------------------------------------------------------------
(* Properties of writeToSocket *)

\* the places in socket.written of the slices of frame k
SlicesOf(k) == {i \in 1..Len(socket.written) : socket.written[i].frame = k}

\* the slices of frame k are at most 8 KiB each, follow one another in the
\* payload from its start, and make up the payload once the call has
\* returned from an open sub-connection
InOrder(k) ==
  /\ \A i \in SlicesOf(k) :
        /\ socket.written[i].to - socket.written[i].from <= MAX_CHUNK_SIZE
        /\ socket.written[i].from =
             (IF \E j \in SlicesOf(k) : j < i
                THEN socket.written[CHOOSE j \in SlicesOf(k) :
                                      j < i /\ \A l \in SlicesOf(k) : l < i => l <= j].to
                ELSE 0)
  /\ (socket.calls[k].returned /\ ~socket.closed) =>
        (\E i \in SlicesOf(k) : socket.written[i].to = socket.frames[k])

\* no slice of another frame lies between two slices of frame k
Unbroken(k) ==
  \A i, j \in SlicesOf(k) : \A l \in i..j : socket.written[l].frame = k

\* C36: a payload of more than 8 KiB reaches the writer as slices of at most
\* 8 KiB that follow one another and make up the payload, and no bytes of
\* another frame for the sub-connection are written between two of them,
\* also when several Keep frames for it arrive in one chunk.
C36_SlicesUnbroken ==
  (socket.op \notin {"none", "chunk"}) =>
    \A k \in 1..Len(socket.calls) : InOrder(k) /\ Unbroken(k)

\* what holds: the slices of each payload, taken by themselves
C36_SlicesInOrder ==
  (socket.op \notin {"none", "chunk"}) => \A k \in 1..Len(socket.calls) : InOrder(k)

----------------------------------------------------------------------------
(* Properties of the backlog of the write queue *)

\* C40: when enqueue has returned no frame is pending in the queue
\* (queue.length - head = 0), so the next call is below MAX_WRITE_QUEUE and
\* does not return false, and the backing array, which holds head entries
\* between two calls and one more after the push of a call, never holds more
\* than QUEUE_COMPACT_HEAD + 1 = 65 entries.
C40_NothingPending ==
  /\ queueLength(wq) - wq.head = 0
  /\ queueLength(wq) - wq.head < MAX_WRITE_QUEUE
  /\ queueLength(wq) + 1 <= QUEUE_COMPACT_HEAD + 1

C40_Witness ==
  /\ wire.enq = QUEUE_COMPACT_HEAD + 2
  /\ wq.head = 1
  /\ ev.op = "enqueue" /\ Len(ev.sent) = 1 /\ ~ev.sent[1].ok

----------------------------------------------------------------------------
(* Properties of reads after writes through the tiered cache *)

\* the map the last call wrote with setMergedUUIDCache, in the state right
\* after the call
JustSet == manager.last.op = "set"

\* what a read of the merged map returns in the state m
ReadOf(m) == getMergedUUIDCache(m).data

\* C39 as stated: a read of the merged map never returns a map older than
\* the one setMergedUUIDCache wrote last, while that write is unexpired, also
\* when L1 has lost its entry since the write.
C39_ReadsLatestWrite ==
  [][(JustSet /\ manager'.last.op = "evicted")
       => (ReadOf(manager').present
             => ReadOf(manager').uuidMap = manager.last.out.uuidMap)]_vars

\* C39, the part that holds: while L1 keeps the entry of the last write, a
\* read returns the map of that write.
C39_ReadsWriteFromL1 ==
  JustSet => (ReadOf(manager).present /\ ReadOf(manager).uuidMap = manager.last.out.uuidMap)

C39_Witness ==
  /\ JustSet
  /\ manager.hasL2
  /\ manager.l2.present
  /\ manager.l2.uuidMap # manager.l1.uuidMap

----------------------------------------------------------------------------
(* Properties of the settling of the upstream sockets *)

\* the runtime has settled the end of record i and its task has not yet
\* taken note of it, on an open WebSocket
Unsettled(i) ==
  /\ i \in 1..Len(subs)
  /\ subs[i].network = TCP
  /\ subs[i].remote \in {"failed", "closed"}
  /\ subs[i].pc # "done"
  /\ wsState = WS_OPEN

\* the task of record i has just sent End for its id, and the active table
\* does not hold the record
EndSentFor(i) ==
  /\ i \in 1..Len(subs)
  /\ ev.rec = i
  /\ ev.op \in {"ConnectRejected", "FlushRejected", "PipeClose", "PipeAbort"}
  /\ \E k \in 1..Len(ev.sent) :
        ev.sent[k].ok /\ ev.sent[k].frame = buildMuxEndFrame(subs[i].id)
  /\ ~(InTable(subs[i].id) /\ connections[subs[i].id] = i)

====
